---------------------------- MODULE Spec2Model ----------------------------
(***************************************************************************)
(* State-machine model of the RustGame runtime core: the frame loop of     *)
(* GameEngine::run (src/src/engine/lib.rs), the older frame driver         *)
(* do_frame and the collision pass (src/src/engine/entity.rs), the tile    *)
(* map queries (src/src/engine/tilemap.rs) and the game entities Player,   *)
(* Arrow and Balloon (src/src/game/entities.rs).                           *)
(*                                                                         *)
(* Numbers.  The program computes positions and velocities in f32.  The    *)
(* model uses exact fixed point instead: a position is an integer number   *)
(* of 1/SUB pixels and a velocity an integer number of 1/VSUB pixels per   *)
(* second, so that one frame (D_T = 1/60 s) adds the velocity to the       *)
(* position.  Float rounding error is not modelled.  Bit masks (u32) are   *)
(* sets of bit positions: & is intersection, | union, ! complement in      *)
(* 0..31.                                                                  *)
(***************************************************************************)
EXTENDS Integers, Sequences, FiniteSets, TLC

\* ------------------------------------------------------------------ bounds
\* Number of frames the main loop is followed for.
MaxFrames == 3

\* ------------------------------------------------------- program constants
FramesPerSecond == 60           \* D_T = 1.0 / 60.0
TILE_SIZE == 64
WINDOW_WIDTH == 800
WINDOW_HEIGHT == 450
ATTR_ELEMS_PER_VERTEX == 4
MAX_JUMP_COUNTER == 5
GroundOffset == 48              \* SPR_PLAYER_BODY_IDLE.5 - SPR_PLAYER_BODY_IDLE.7

VSUB == FramesPerSecond \div 20          \* velocity units per (pixel/second)
SUB == VSUB * FramesPerSecond            \* position units per pixel

LEFT_SCROLL_BOUNDARY == WINDOW_WIDTH \div 3
RIGHT_SCROLL_BOUNDARY == (WINDOW_WIDTH * 2) \div 3
TOP_SCROLL_BOUNDARY == WINDOW_HEIGHT \div 3
BOTTOM_SCROLL_BOUNDARY == (WINDOW_HEIGHT * 2) \div 3

\* Control bits (bit positions of the u32 buttons mask).
CONTROL_UP == {0}
CONTROL_DOWN == {1}
CONTROL_LEFT == {2}
CONTROL_RIGHT == {3}
CONTROL_FIRE == {4}
CONTROL_JUMP == {5}

\* Collision classes (bit positions).
COLL_MISSILE == {0}
COLL_PLAYER == {1}
COLL_OBJ == {2}

AllBits == 0..31
BitNot(m) == AllBits \ m
BitAnd(a, b) == a \cap b

FLAG_SOLID == {0}
FLAG_LADDER == {1}

\* ------------------------------------------------------------- arithmetic
\* Rust's integer division and `as i32` conversion truncate toward zero.
TruncDiv(n, d) == IF n >= 0 THEN n \div d ELSE -((-n) \div d)

\* f32 -> i32 of a position held in 1/SUB pixels.
AsI32(p) == TruncDiv(p, SUB)

Min(a, b) == IF a < b THEN a ELSE b
Max(a, b) == IF a > b THEN a ELSE b
Clamp(v, lo, hi) == Max(lo, Min(v, hi))

\* sin(k * pi / 60) * 1000 for k = 0..30, rounded.
SinTable ==
  << 0, 52, 105, 156, 208, 259, 309, 358, 407, 454, 500, 545, 588, 629, 669,
     707, 743, 777, 809, 839, 866, 891, 914, 934, 951, 966, 978, 988, 995,
     999, 1000 >>

\* Angles are integers in units of pi/60.
Sin1000(k) ==
  LET r == k % 120
  IN  IF r <= 30 THEN SinTable[r + 1]
      ELSE IF r <= 60 THEN SinTable[60 - r + 1]
      ELSE IF r <= 90 THEN -SinTable[r - 60 + 1]
      ELSE -SinTable[120 - r + 1]

Cos1000(k) == Sin1000(k + 30)

RECURSIVE IsqrtFrom(_, _, _)
IsqrtFrom(n, lo, hi) ==
  IF lo >= hi THEN lo
  ELSE LET mid == (lo + hi + 1) \div 2
       IN  IF mid * mid <= n THEN IsqrtFrom(n, mid, hi)
           ELSE IsqrtFrom(n, lo, mid - 1)

Isqrt(n) == IsqrtFrom(n, 0, 20000)

\* (cos, sin) * 1000 of atan2(y, x); atan2(0, 0) = 0.
Direction(x, y) ==
  IF x = 0 /\ y = 0 THEN [c |-> 1000, s |-> 0]
  ELSE LET len == Isqrt(x * x + y * y)
       IN  [c |-> TruncDiv(x * 1000, Max(len, 1)),
            s |-> TruncDiv(y * 1000, Max(len, 1))]

\* ------------------------------------------------------------- rectangles
Rect(left, top, width, height) ==
  [left |-> left, top |-> top, width |-> width, height |-> height]

Right(r) == r.left + r.width
Bottom(r) == r.top + r.height

\* Mutant of RectOverlaps: the comparisons are not strict.
RectOverlapsInclusive(a, b) ==
  /\ a.left <= Right(b)
  /\ b.left <= Right(a)
  /\ a.top <= Bottom(b)
  /\ b.top <= Bottom(a)

\* util::Rect::overlaps
RectOverlaps(a, b) ==
  /\ a.left < Right(b)
  /\ b.left < Right(a)
  /\ a.top < Bottom(b)
  /\ b.top < Bottom(a)

\* entity.rs overlaps: the tuple form used by handle_collisions
overlaps(a1, a2) ==
  /\ a1.left < a2.left + a2.width
  /\ a1.left + a1.width > a2.left
  /\ a1.top < a2.top + a2.height
  /\ a1.top + a1.height > a2.top


\* --------------------------------------------------------------- tile map
\* One call of TileMap::get_flags: the flags returned, the places of the
\* tile vector the call read (ghost), and whether an index was out of range.
FlagsResult(flags, reads, panic) ==
  [flags |-> flags, reads |-> reads, panic |-> panic]

\* Mutant of get_flags_call: a point outside the map is solid (the policy of
\* the older src/tilemap.rs).
get_flags_solid_outside(tm, x, y) ==
  IF x < 0 \/ y < 0 \/ x >= tm.width * TILE_SIZE \/ y >= tm.height * TILE_SIZE
  THEN FlagsResult(FLAG_SOLID, << >>, FALSE)
  ELSE LET index == (y \div TILE_SIZE) * tm.width + (x \div TILE_SIZE)
           tile_num == tm.tiles[index + 1]
       IN  IF index >= Len(tm.tiles) THEN FlagsResult({}, << >>, TRUE)
           ELSE IF tile_num = 0 THEN FlagsResult({}, << index >>, FALSE)
           ELSE IF tile_num - 1 >= Len(tm.tile_flags)
           THEN FlagsResult({}, << index >>, TRUE)
           ELSE FlagsResult(tm.tile_flags[(tile_num - 1) + 1], << index >>, FALSE)

\* Mutant of get_flags_call: the tile number, not the tile number minus one,
\* indexes tile_flags, and tile 0 is looked up like any other.
get_flags_no_offset(tm, x, y) ==
  IF x < 0 \/ y < 0 \/ x >= tm.width * TILE_SIZE \/ y >= tm.height * TILE_SIZE
  THEN FlagsResult({}, << >>, FALSE)
  ELSE LET index == (y \div TILE_SIZE) * tm.width + (x \div TILE_SIZE)
           tile_num == tm.tiles[index + 1]
       IN  IF index >= Len(tm.tiles) THEN FlagsResult({}, << >>, TRUE)
           ELSE IF tile_num >= Len(tm.tile_flags)
           THEN FlagsResult({}, << index >>, TRUE)
           ELSE FlagsResult(tm.tile_flags[tile_num + 1], << index >>, FALSE)

\* TileMap::get_flags, lines 143-154.  x and y are not negative where the
\* divisions are made, so Rust's truncating / is \div.
get_flags_call(tm, x, y) ==
  IF x < 0 \/ y < 0 \/ x >= tm.width * TILE_SIZE \/ y >= tm.height * TILE_SIZE
  THEN FlagsResult({}, << >>, FALSE)
  ELSE LET index == (y \div TILE_SIZE) * tm.width + (x \div TILE_SIZE)
           tile_num == tm.tiles[index + 1]
       IN  IF index >= Len(tm.tiles) THEN FlagsResult({}, << >>, TRUE)
           ELSE IF tile_num = 0 THEN FlagsResult({}, << index >>, FALSE)
           ELSE IF tile_num - 1 >= Len(tm.tile_flags)
           THEN FlagsResult({}, << index >>, TRUE)
           ELSE FlagsResult(tm.tile_flags[(tile_num - 1) + 1], << index >>, FALSE)

\* TileMap::get_flags: flags (a set of bits) of the tile type at a world point;
\* tm.tiles is row-major, 0 is the empty tile, N indexes tile_flags at N-1.
get_flags(tm, x, y) == get_flags_call(tm, x, y).flags

is_solid(tm, x, y) == BitAnd(get_flags(tm, x, y), FLAG_SOLID) # {}

is_ladder(tm, x, y) == BitAnd(get_flags(tm, x, y), FLAG_LADDER) # {}

\* ---------------------------------------------------------------- entities
\* An entity is a record; `kind` is the implementing type, `id` a ghost
\* identity (the program identifies an entity by its place in the vector).
\*   Player, Arrow, Balloon: the game's entities (game/entities.rs).
\*   Generic: any other implementor of trait Entity.  Its constructor fixes
\*   class, mask and box; update pushes one new entity while `spawns` > 0 and
\*   clears is_live when `ttl` reaches 0; collide clears is_live if `fragile`.

\* Player::new
PlayerNew(id, x, y) ==
  [id |-> id, kind |-> "Player",
   angle |-> -15,                                  \* -PI / 4
   xpos |-> x * SUB,
   ypos |-> (y + TILE_SIZE - GroundOffset) * SUB,
   bow_drawn |-> FALSE, bow_draw_time |-> 0, facing_left |-> FALSE,
   on_ground |-> FALSE, jump_counter |-> MAX_JUMP_COUNTER, yvec |-> 0,
   last_jump_button |-> FALSE, killed |-> FALSE, climbing |-> FALSE,
   death_effects |-> 0]       \* ghost: audio::play_effect(SFX_DEATH) calls

\* Arrow::new; angle in units of pi/60, velocity in 1/VSUB pixels per second
ArrowNew(id, xpos, ypos, angle, velocity) ==
  [id |-> id, kind |-> "Arrow",
   xpos |-> xpos, ypos |-> ypos,
   xvec |-> TruncDiv(Cos1000(angle) * velocity, 1000),
   yvec |-> TruncDiv(Sin1000(angle) * velocity, 1000),
   cosA |-> Cos1000(angle), sinA |-> Sin1000(angle),
   collided |-> FALSE]

\* Balloon::new
BalloonNew(id, x, y) ==
  [id |-> id, kind |-> "Balloon", xpos |-> x * SUB, ypos |-> y * SUB,
   buoyancy |-> 0, popped |-> FALSE]

GenericNew(id, x, y, cls, msk, fragile, spawns, ttl) ==
  [id |-> id, kind |-> "Generic", box |-> Rect(x - 8, y - 8, 16, 16),
   cls |-> cls, msk |-> msk, fragile |-> fragile, spawns |-> spawns,
   ttl |-> ttl, live |-> TRUE]

\* Mutant of is_live: a killed player is not live.
is_live_until_killed(e) ==
  CASE e.kind = "Player" -> ~e.killed
    [] e.kind = "Arrow" -> ~e.collided
    [] e.kind = "Balloon" -> ~e.popped
    [] e.kind = "Generic" -> e.live

\* Entity::is_live
is_live(e) ==
  CASE e.kind = "Player" -> TRUE
    [] e.kind = "Arrow" -> ~e.collided
    [] e.kind = "Balloon" -> ~e.popped
    [] e.kind = "Generic" -> e.live

\* Entity::get_collision_class
get_collision_class(e) ==
  CASE e.kind = "Player" -> COLL_PLAYER
    [] e.kind = "Arrow" -> COLL_MISSILE
    [] e.kind = "Balloon" -> COLL_OBJ
    [] e.kind = "Generic" -> e.cls

\* Mutant of get_collision_mask: an arrow accepts every class, its own too.
get_collision_mask_any(e) ==
  CASE e.kind = "Player" -> COLL_MISSILE
    [] e.kind = "Arrow" -> BitNot({})
    [] e.kind = "Balloon" -> COLL_MISSILE
    [] e.kind = "Generic" -> e.msk

\* Entity::get_collision_mask
get_collision_mask(e) ==
  CASE e.kind = "Player" -> COLL_MISSILE
    [] e.kind = "Arrow" -> BitNot(COLL_MISSILE)
    [] e.kind = "Balloon" -> COLL_MISSILE
    [] e.kind = "Generic" -> e.msk

\* (pos + cos-or-sin * 14.0) as i32, pos in 1/SUB pixels, trig * 1000
TipCoord(pos, trig) == TruncDiv(pos * 1000 + trig * 14 * SUB, 1000 * SUB)

\* Mutant of get_bounding_box: the player's box is the torso box, killed or
\* not.
get_bounding_box_torso(e) ==
  CASE e.kind = "Player" ->
         Rect(AsI32(e.xpos) - 5, AsI32(e.ypos) - 5, 10, 15)
    [] e.kind = "Arrow" ->
         Rect(TipCoord(e.xpos, e.cosA), TipCoord(e.ypos, e.sinA), 4, 4)
    [] e.kind = "Balloon" ->
         Rect(AsI32(e.xpos) - 10, AsI32(e.ypos) - 15, 20, 30)
    [] e.kind = "Generic" -> e.box

\* Entity::get_bounding_box
get_bounding_box(e) ==
  CASE e.kind = "Player" ->
         IF e.killed
         THEN Rect(AsI32(e.xpos) - 32, AsI32(e.ypos) + 40, 64, 14)
         ELSE Rect(AsI32(e.xpos) - 5, AsI32(e.ypos) - 5, 10, 15)
    [] e.kind = "Arrow" ->
         Rect(TipCoord(e.xpos, e.cosA), TipCoord(e.ypos, e.sinA), 4, 4)
    [] e.kind = "Balloon" ->
         Rect(AsI32(e.xpos) - 10, AsI32(e.ypos) - 15, 20, 30)
    [] e.kind = "Generic" -> e.box

\* Entity::collide: the entity after its collide(other) call
collide(e, other) ==
  CASE e.kind = "Player" ->
         IF ~e.killed
         THEN [e EXCEPT !.killed = TRUE, !.death_effects = e.death_effects + 1]
         ELSE e
    [] e.kind = "Arrow" -> [e EXCEPT !.collided = TRUE]
    [] e.kind = "Balloon" -> [e EXCEPT !.popped = TRUE]
    [] e.kind = "Generic" -> IF e.fragile THEN [e EXCEPT !.live = FALSE] ELSE e

\* ------------------------------------------------------------------ update
\* Each update operator gives [self |-> the entity after update(),
\* spawned |-> what the call pushed onto new_entities]; `id` is the identity
\* given to a pushed entity.

Pressed(buttons, control) == BitAnd(buttons, control) # {}

\* Arrow::update
ArrowUpdate(a, tm) ==
  LET hit == is_solid(tm, AsI32(a.xpos), AsI32(a.ypos))
      dir == Direction(a.xvec, a.yvec)
  IN  [self |-> [a EXCEPT !.collided = a.collided \/ hit,
                          !.xpos = a.xpos + a.xvec,
                          !.ypos = a.ypos + a.yvec,
                          !.cosA = dir.c,
                          !.sinA = dir.s,
                          !.yvec = IF a.yvec < 500 * VSUB
                                   THEN a.yvec + 25 * VSUB   \* GRAVITY * d_t
                                   ELSE a.yvec],
       spawned |-> << >>]

\* sin(n / 60) * 0.5 pixels in 1/SUB pixels (n / 60 radians, n frames):
\* the cubic Taylor polynomial, exact to 1% for n <= 60.
BuoyancyStep(n) == (3 * n) \div 2 - (n * n * n) \div 14400

\* Balloon::update
BalloonUpdate(b) ==
  [self |-> [b EXCEPT !.buoyancy = b.buoyancy + 1,
                      !.ypos = b.ypos + BuoyancyStep(b.buoyancy + 1)],
   spawned |-> << >>]

GenericUpdate(g, id) ==
  LET ttl == IF g.ttl > 0 THEN g.ttl - 1 ELSE g.ttl
  IN  [self |-> [g EXCEPT !.spawns = IF g.spawns > 0 THEN g.spawns - 1 ELSE 0,
                          !.ttl = ttl,
                          !.live = g.live /\ ttl # 0],
       spawned |-> IF g.spawns > 0
                   THEN << [g EXCEPT !.id = id, !.spawns = 0, !.ttl = -1,
                                     !.live = TRUE] >>
                   ELSE << >>]

\* Player::update, the part that runs while climbing (lines 181-202)
PlayerClimb(p, buttons, tm, on_ladder) ==
  LET px == AsI32(p.xpos)
      py == AsI32(p.ypos)
      ypos == IF Pressed(buttons, CONTROL_UP) /\ ~is_solid(tm, px, py)
              THEN p.ypos - 128 * VSUB
              ELSE IF Pressed(buttons, CONTROL_DOWN)
                      /\ ~is_solid(tm, px, py + GroundOffset)
                   THEN p.ypos + 128 * VSUB
                   ELSE p.ypos
      xpos == IF Pressed(buttons, CONTROL_LEFT) THEN p.xpos - 128 * VSUB
              ELSE IF Pressed(buttons, CONTROL_RIGHT) THEN p.xpos + 128 * VSUB
              ELSE p.xpos
  IN  [p EXCEPT !.climbing = on_ladder, !.xpos = xpos, !.ypos = ypos]

\* Mutant of PlayerBow: the arrow leaves when the button goes down.
PlayerBowOnPress(p, buttons, id) ==
  IF ~Pressed(buttons, CONTROL_FIRE)
  THEN [self |-> [p EXCEPT !.bow_drawn = FALSE], spawned |-> << >>]
  ELSE IF p.bow_drawn
       THEN [self |-> [p EXCEPT !.bow_draw_time = p.bow_draw_time + 1],
             spawned |-> << >>]
       ELSE [self |-> [p EXCEPT !.bow_drawn = TRUE, !.bow_draw_time = 0],
             spawned |-> << ArrowNew(id, p.xpos, p.ypos, p.angle, 3000) >>]

\* Player::update, bow handling (lines 211-248)
PlayerBow(p, buttons, id) ==
  IF ~Pressed(buttons, CONTROL_FIRE)
  THEN IF p.bow_drawn
       THEN LET velocity == Clamp(p.bow_draw_time, 12, 24) * 250
                arrow_angle == IF p.facing_left THEN 60 - p.angle ELSE p.angle
            IN  [self |-> [p EXCEPT !.bow_drawn = FALSE],
                 spawned |-> << ArrowNew(id, p.xpos, p.ypos, arrow_angle, velocity) >>]
       ELSE [self |-> p, spawned |-> << >>]
  ELSE LET p1 == IF p.bow_drawn
                 THEN [p EXCEPT !.bow_draw_time = p.bow_draw_time + 1]
                 ELSE [p EXCEPT !.bow_drawn = TRUE, !.bow_draw_time = 0]
           a1 == IF Pressed(buttons, CONTROL_UP) /\ p1.angle > -30
                 THEN p1.angle - 1 ELSE p1.angle
           a2 == IF Pressed(buttons, CONTROL_DOWN) /\ a1 < 30
                 THEN a1 + 1 ELSE a1
       IN  [self |-> [p1 EXCEPT !.angle = a2], spawned |-> << >>]

\* Player::update, ground, jump and gravity (lines 250-288)
PlayerVertical(p, buttons, tm) ==
  LET foot == AsI32(p.ypos) + GroundOffset
      on_ground == \/ is_solid(tm, AsI32(p.xpos) - 12, foot)
                   \/ is_solid(tm, AsI32(p.xpos) + 12, foot)
      jump == Pressed(buttons, CONTROL_JUMP)
      p1 == IF on_ground
            THEN IF jump /\ ~p.last_jump_button
                 THEN [p EXCEPT !.yvec = -100 * VSUB, !.jump_counter = 0]
                 ELSE [p EXCEPT !.yvec = 0,
                                !.ypos = ((p.ypos \div (TILE_SIZE * SUB)) * TILE_SIZE
                                          + (TILE_SIZE - GroundOffset)) * SUB]
            ELSE IF p.jump_counter < MAX_JUMP_COUNTER
                 THEN IF jump
                      THEN [p EXCEPT !.yvec = p.yvec - 250,   \* 5000 * d_t
                                     !.jump_counter = p.jump_counter + 1]
                      ELSE [p EXCEPT !.jump_counter = MAX_JUMP_COUNTER]
                 ELSE IF p.yvec < 500 * VSUB
                      THEN [p EXCEPT !.yvec = p.yvec + 25 * VSUB]
                      ELSE p
      bumped == p1.yvec < 0
                /\ is_solid(tm, AsI32(p1.xpos), AsI32(p1.ypos) - 20)
      yvec == IF bumped THEN 0 ELSE p1.yvec
  IN  [p1 EXCEPT !.on_ground = on_ground,
                 !.yvec = yvec,
                 !.last_jump_button = jump,
                 !.ypos = p1.ypos + yvec]

\* Player::update, horizontal movement (lines 290-315)
PlayerHorizontal(p, buttons, tm) ==
  LET px == AsI32(p.xpos)
      py == AsI32(p.ypos)
      free(x) == /\ ~is_solid(tm, x, py + GroundOffset - 3)
                 /\ ~is_solid(tm, x, py - 15)
  IN  IF Pressed(buttons, CONTROL_LEFT) /\ free(px - 16)
      THEN [p EXCEPT !.xpos = p.xpos - 150 * VSUB, !.facing_left = TRUE]
      ELSE IF Pressed(buttons, CONTROL_RIGHT) /\ free(px + 16)
           THEN [p EXCEPT !.xpos = p.xpos + 150 * VSUB, !.facing_left = FALSE]
           ELSE p

\* Player::update.  The run animation (is_running, run_frame, frame_time)
\* only selects a sprite and is left out.
PlayerUpdate(p, buttons, tm, id) ==
  IF p.killed THEN [self |-> p, spawned |-> << >>]
  ELSE
    LET on_ladder == \/ is_ladder(tm, AsI32(p.xpos), AsI32(p.ypos))
                     \/ is_ladder(tm, AsI32(p.xpos), AsI32(p.ypos) + GroundOffset)
    IN  IF p.climbing
        THEN [self |-> PlayerClimb(p, buttons, tm, on_ladder), spawned |-> << >>]
        ELSE IF on_ladder /\ (Pressed(buttons, CONTROL_UP)
                              \/ Pressed(buttons, CONTROL_DOWN))
        THEN [self |-> [p EXCEPT !.climbing = TRUE, !.bow_drawn = FALSE],
              spawned |-> << >>]
        ELSE LET bow == PlayerBow(p, buttons, id)
             IN  [self |-> PlayerHorizontal(
                             PlayerVertical(bow.self, buttons, tm), buttons, tm),
                  spawned |-> bow.spawned]

\* Entity::update, dispatched on the implementing type
update(e, buttons, tm, id) ==
  CASE e.kind = "Player" -> PlayerUpdate(e, buttons, tm, id)
    [] e.kind = "Arrow" -> ArrowUpdate(e, tm)
    [] e.kind = "Balloon" -> BalloonUpdate(e)
    [] e.kind = "Generic" -> GenericUpdate(e, id)

\* -------------------------------------------------------------------- draw
\* A placement is what one RenderContext::draw_image call is given; `who` is
\* the id of the entity that made the call (ghost), 0 for the tile map.
\* `rotated` is rotation != 0.0; crot and srot are cos and sin of the
\* rotation, times 1000.
Placement(who, x, y, sprite, rotated, flip_h) ==
  [who |-> who, x |-> x, y |-> y, sprite |-> sprite, rotated |-> rotated,
   flip_h |-> flip_h, crot |-> 1000, srot |-> 0]

\* The placement with the rotation whose cos and sin (times 1000) are given.
Rotate(pl, crot, srot) == [pl EXCEPT !.crot = crot, !.srot = srot]

\* Entity::draw: the draw_image calls of one entity, in order
draw(e) ==
  CASE e.kind = "Player" ->
         LET x == AsI32(e.xpos)
             y == AsI32(e.ypos)
         IN  IF e.killed THEN << Placement(e.id, x, y, "PLAYER_DEAD", FALSE, FALSE) >>
             ELSE IF e.climbing
             THEN << Placement(e.id, x, y, "PLAYER_CLIMB", FALSE, FALSE) >>
             ELSE IF e.bow_drawn
             THEN LET angle == IF e.facing_left THEN -e.angle ELSE e.angle
                  IN  << Placement(e.id, x, y, "PLAYER_BODY", FALSE, e.facing_left),
                         Rotate(Placement(e.id, x, y, "PLAYER_BOW_DRAWN",
                                          e.angle # 0, e.facing_left),
                                Cos1000(angle), Sin1000(angle)) >>
             ELSE << Placement(e.id, x, y, "PLAYER_BOW_ON_BACK", FALSE, e.facing_left),
                     Placement(e.id, x, y, "PLAYER_BODY", FALSE, e.facing_left),
                     Placement(e.id, x, y, "PLAYER_ARMS", FALSE, e.facing_left) >>
    [] e.kind = "Arrow" ->
         << Rotate(Placement(e.id, AsI32(e.xpos), AsI32(e.ypos), "ARROW", TRUE,
                             FALSE),
                   e.cosA, e.sinA) >>
    [] e.kind = "Balloon" ->
         << Placement(e.id, AsI32(e.xpos), AsI32(e.ypos), "BALLOON", FALSE, FALSE) >>
    [] e.kind = "Generic" ->
         << Placement(e.id, e.box.left, e.box.top, "GENERIC", FALSE, FALSE) >>

\* ------------------------------------------------------- collision pass
\* One entry of the pass's log (ghost): the pair examined (places i < j in
\* the vector, counted from 1), the two boxes the overlap test was given,
\* its answer, whether collide was invoked on the first (c1) and on the
\* second (c2) entity, and the boxes the two entities have when the pair is
\* reached (now1, now2).
TestEntry(i, j, e1, e2, b1, b2, hit, c1, c2) ==
  [i |-> i, j |-> j, a |-> e1.id, b |-> e2.id, b1 |-> b1, b2 |-> b2,
   hit |-> hit, c1 |-> c1, c2 |-> c2,
   now1 |-> get_bounding_box(e1), now2 |-> get_bounding_box(e2)]

\* Mutant of CollidePair: the second test is skipped once the first entity
\* has reacted (an `else if`).
CollidePairElseIf(e1, e2) ==
  LET c1 == BitAnd(get_collision_mask(e1), get_collision_class(e2)) # {}
      n1 == IF c1 THEN collide(e1, e2) ELSE e1
      c2 == ~c1 /\ BitAnd(get_collision_mask(e2), get_collision_class(n1)) # {}
      n2 == IF c2 THEN collide(e2, n1) ELSE e2
  IN  [e1 |-> n1, e2 |-> n2, c1 |-> c1, c2 |-> c2]

\* Lines 101-107: the two mask tests of a pair whose boxes overlap.
\* [e1, e2 |-> the entities afterwards, c1, c2 |-> whether collide ran]
CollidePair(e1, e2) ==
  LET c1 == BitAnd(get_collision_mask(e1), get_collision_class(e2)) # {}
      n1 == IF c1 THEN collide(e1, e2) ELSE e1
      c2 == BitAnd(get_collision_mask(e2), get_collision_class(n1)) # {}
      n2 == IF c2 THEN collide(e2, n1) ELSE e2
  IN  [e1 |-> n1, e2 |-> n2, c1 |-> c1, c2 |-> c2]

\* Line 97: the box of the row's first entity, read once per row.
RowBox(es, i) == get_bounding_box(es[i])

\* Lines 98-109: the inner loop, e1 = es[i] against es[j], es[j+1], ...
RECURSIVE CollideRow(_, _, _, _, _)
CollideRow(es, log, i, b1, j) ==
  IF j > Len(es) THEN [entities |-> es, log |-> log]
  ELSE LET b2 == get_bounding_box(es[j])
           hit == overlaps(b1, b2)
           r == IF hit THEN CollidePair(es[i], es[j])
                ELSE [e1 |-> es[i], e2 |-> es[j], c1 |-> FALSE, c2 |-> FALSE]
           es2 == [es EXCEPT ![i] = r.e1, ![j] = r.e2]
       IN  CollideRow(es2,
                      Append(log, TestEntry(i, j, es[i], es[j], b1, b2, hit, r.c1, r.c2)),
                      i, b1, j + 1)

\* Mutant of CollideFrom: every row runs over the whole vector, so a pair is
\* examined from both sides and an entity against itself.
RECURSIVE CollideFromWholeRows(_, _, _)
CollideFromWholeRows(es, log, i) ==
  IF i > Len(es) - 1 THEN [entities |-> es, log |-> log]
  ELSE LET row == CollideRow(es, log, i, RowBox(es, i), 1)
       IN  CollideFromWholeRows(row.entities, row.log, i + 1)

\* Lines 94-110: the outer loop, i = 0 .. len - 2 (here 1 .. Len - 1).
RECURSIVE CollideFrom(_, _, _)
CollideFrom(es, log, i) ==
  IF i > Len(es) - 1 THEN [entities |-> es, log |-> log]
  ELSE LET row == CollideRow(es, log, i, RowBox(es, i), i + 1)
       IN  CollideFrom(row.entities, row.log, i + 1)

\* handle_collisions.  `entities.len() - 1` is computed in usize: for an empty
\* vector a build with overflow checks panics at the subtraction, a build
\* without them wraps to usize::MAX and panics in split_at_mut(1).
handle_collisions(es) ==
  IF Len(es) = 0
  THEN [entities |-> es, log |-> << >>,
        panics |-> {"attempt to subtract with overflow", "mid > len"}]
  ELSE LET r == CollideFrom(es, << >>, 1)
       IN  [entities |-> r.entities, log |-> r.log, panics |-> {}]

\* ------------------------------------------------------------ tile drawing
\* TileMap::draw: the placements of one call, or the panic of an index out
\* of the tile vector.
TileMapDraw(tm, vr) ==
  LET left_tile == TruncDiv(vr.left, TILE_SIZE)
      right_tile == Min(TruncDiv(Right(vr) + TILE_SIZE - 1, TILE_SIZE), tm.width)
      top_tile == TruncDiv(vr.top, TILE_SIZE)
      bottom_tile == Min(TruncDiv(Bottom(vr) + TILE_SIZE - 1, TILE_SIZE), tm.height)
      cols == Max(right_tile - left_tile, 0)
      rows == Max(bottom_tile - top_tile, 0)
      cell(k) == [x |-> left_tile + ((k - 1) % cols), y |-> top_tile + ((k - 1) \div cols)]
      index(c) == c.y * tm.width + c.x
      cells == [k \in 1..(rows * cols) |-> cell(k)]
      bad == \E k \in 1..(rows * cols) :
               index(cells[k]) < 0 \/ index(cells[k]) >= Len(tm.tiles)
      shown == SelectSeq(cells, LAMBDA c : tm.tiles[index(c) + 1] # 0)
  IN  IF bad THEN [panic |-> TRUE, placements |-> << >>]
      ELSE [panic |-> FALSE,
            placements |->
              [k \in 1..Len(shown) |->
                 Placement(0, TILE_SIZE * shown[k].x, TILE_SIZE * shown[k].y,
                           tm.atlas_coords[tm.tiles[index(shown[k]) + 1]],
                           FALSE, FALSE)]]

\* ------------------------------------------------------------------ inputs
\* The level: 14 x 8 tiles.  Tile type 1 is solid, type 2 a ladder.  The
\* bottom row is solid under columns 0..3; a ladder stands in column 2.
Grid == [width |-> 14, height |-> 8]

\* The tiles of a grid of the given size, row-major.
TilesOf(grid) ==
  [k \in 1..(grid.width * grid.height) |->
     LET col == (k - 1) % grid.width
         row == (k - 1) \div grid.width
     IN  IF row = grid.height - 1 /\ col <= 3 THEN 1
         ELSE IF col = 2 /\ row \in {5, 6} /\ row < grid.height - 1 THEN 2
         ELSE 0]

GridTiles == TilesOf(Grid)

Marker(name, x, y) == [name |-> name, x |-> x, y |-> y]

\* A loaded TileMap of the given size, player start and object markers.
LevelOf(grid, start, objects) ==
  [width |-> grid.width, height |-> grid.height, tiles |-> TilesOf(grid),
   tile_flags |-> << FLAG_SOLID, FLAG_LADDER >>,
   atlas_coords |-> << "TILE_SOLID", "TILE_LADDER" >>,
   objects |-> objects, player_start_x |-> start.x, player_start_y |-> start.y]

\* The 14 x 8 level with the given object markers.
Level(objects) == LevelOf(Grid, [x |-> 130, y |-> 384], objects)

\* Other maps load_tile_map is given: the player start far outside the map
\* on either side (the file's start coordinate is not validated), maps
\* lower than the 450 pixel window (7 rows = 448 pixels, 6 rows = 384), and
\* the player start in the air right of the middle of the map.
OtherLevels ==
  { LevelOf(Grid, [x |-> 600, y |-> 280], << >>),
    LevelOf(Grid, [x |-> 5000, y |-> 5000], << >>),
    LevelOf(Grid, [x |-> -500, y |-> -500], << >>),
    LevelOf([width |-> 14, height |-> 7], [x |-> 130, y |-> 384], << >>),
    LevelOf([width |-> 14, height |-> 6], [x |-> 130, y |-> 320], << >>) }

\* ----------------------------------------------------------- map file
\* A file is a sequence of bytes (0..255).  An f32 is modelled by the number
\* of 512ths it holds when it is k / 512 with k in 0..512 (what pack_images
\* computes for an atlas of ATLAS_SIZE 512), else by its bit pattern.
ATLAS_SIZE == 512
NAME_SIZE == 32

\* i32::to_le_bytes
I32Bytes(v) ==
  LET w == IF v < 0 THEN v + 2147483647 + 1 ELSE v
      top == (w \div 16777216) + (IF v < 0 THEN 128 ELSE 0)
  IN  << w % 256, (w \div 256) % 256, (w \div 65536) % 256, top >>

\* i32::from_le_bytes
I32FromBytes(b) ==
  b[1] + 256 * b[2] + 65536 * b[3]
    + 16777216 * (IF b[4] >= 128 THEN b[4] - 256 ELSE b[4])

\* u32::from_le_bytes(..) as usize; a count of 2^31 or more is more than
\* any file holds and is given as the largest count the model can write.
U32FromBytes(b) ==
  IF b[4] >= 128 THEN 2147483647 ELSE I32FromBytes(b)

FloorLog2(k) == CHOOSE e \in 0..9 : 2^e <= k /\ k < 2^(e + 1)

\* The IEEE 754 single-precision bit pattern of k / 512, 0 <= k <= 512.
F32Bits(k) ==
  IF k = 0 THEN 0
  ELSE LET e == FloorLog2(k)
       IN  (118 + e) * 8388608 + (k - 2^e) * 2^(23 - e)

F32Value(k, raw) == [k512 |-> k, raw |-> raw]

\* f32::to_le_bytes of k / 512
F32Bytes(k) == I32Bytes(F32Bits(k))

\* f32::from_le_bytes
F32FromBytes(b) ==
  LET bits == I32FromBytes(b)
      biased == bits \div 8388608
      mant == bits % 8388608
      e == biased - 118
  IN  IF bits = 0 THEN F32Value(0, 0)
      ELSE IF bits > 0 /\ e \in 0..9 /\ mant % 2^(23 - e) = 0
      THEN F32Value(2^e + mant \div 2^(23 - e), 0)
      ELSE F32Value(-1, bits)

\* A u8 of flags as the set of its bits, and back.
ByteBits(b) == {i \in 0..7 : (b \div 2^i) % 2 = 1}

RECURSIVE BitsByte(_)
BitsByte(bits) ==
  IF bits = {} THEN 0
  ELSE LET i == CHOOSE j \in bits : TRUE IN 2^i + BitsByte(bits \ {i})

RECURSIVE Flatten(_)
Flatten(seqs) ==
  IF seqs = << >> THEN << >> ELSE Head(seqs) \o Flatten(Tail(seqs))

Zeros(n) == [k \in 1..n |-> 0]

MAGIC == << 84, 77, 65, 80 >>                           \* b"TMAP"

\* build_assets.rs TileMapInfo; rects[k] is the atlas rectangle that
\* image_coordinates holds for image_paths[k], in 512ths.
TileMapInfo(width, height, start, rects, tile_flags, tile_data, objects) ==
  [width |-> width, height |-> height,
   player_start_x |-> start.x, player_start_y |-> start.y,
   rects |-> rects, tile_flags |-> tile_flags, tile_data |-> tile_data,
   objects |-> objects]

\* write_tile_map_file: the bytes written, or the panic of the slice
\* name_temp[..name.len()] for a name longer than the 32 byte field.
write_tile_map_file(info) ==
  LET rect(r) == F32Bytes(r.left) \o F32Bytes(r.top) \o F32Bytes(r.right)
                   \o F32Bytes(r.bottom)
      object(o) == o.name \o Zeros(NAME_SIZE - Len(o.name))
                     \o I32Bytes(o.x) \o I32Bytes(o.y)
  IN  IF \E k \in DOMAIN info.objects : Len(info.objects[k].name) > NAME_SIZE
      THEN [panic |-> "range end index out of range", bytes |-> << >>]
      ELSE [panic |-> "",
            bytes |->
              MAGIC \o I32Bytes(info.width) \o I32Bytes(info.height)
                \o I32Bytes(info.player_start_x) \o I32Bytes(info.player_start_y)
                \o I32Bytes(Len(info.rects))
                \o Flatten([k \in DOMAIN info.rects |-> rect(info.rects[k])])
                \o [k \in DOMAIN info.tile_flags |-> BitsByte(info.tile_flags[k])]
                \o info.tile_data
                \o I32Bytes(Len(info.objects))
                \o Flatten([k \in DOMAIN info.objects |-> object(info.objects[k])])]

\* TileMap::default()
DefaultTileMap ==
  [width |-> 0, height |-> 0, tiles |-> << >>, tile_flags |-> << >>,
   atlas_coords |-> << >>, objects |-> << >>,
   player_start_x |-> 0, player_start_y |-> 0]

\* What TileMap::new gives: a panic message and no map, or a map.
LoadPanic(msg) == [panic |-> msg, map |-> DefaultTileMap]
Loaded(map) == [panic |-> "", map |-> map]

EOF_MSG == "failed to fill whole buffer"

\* The n bytes after the first pos bytes of the buffer: what a successful
\* read_exact into an n byte buffer delivers.  TileMapNew asks Short before
\* it uses a field; a place past the end reads as the 0 the buffers are
\* initialised with.
Field(buf, pos, n) ==
  [k \in 1..n |-> IF pos + k <= Len(buf) THEN buf[pos + k] ELSE 0]

\* Mutant of Short: a short read is not noticed (read where read_exact is
\* meant).
ShortNever(buf, pos, n) == FALSE

\* read_exact(..).unwrap() of n bytes at pos fails: the buffer ends first.
Short(buf, pos, n) == pos + n > Len(buf)

\* Lines 109-121: the object records from place pos on, `left` of them to
\* go; objects collects those read.
RECURSIVE ReadObjects(_, _, _, _)
ReadObjects(buf, pos, left, objects) ==
  IF left = 0 THEN [panic |-> "", objects |-> objects]
  ELSE IF Short(buf, pos, NAME_SIZE) THEN [panic |-> EOF_MSG, objects |-> << >>]
  ELSE LET name_buf == Field(buf, pos, NAME_SIZE)
           ends == {k \in 1..NAME_SIZE : name_buf[k] = 0}
       IN  IF ends = {}
           THEN [panic |-> "called Option::unwrap() on a None value",
                 objects |-> << >>]
           ELSE IF Short(buf, pos + NAME_SIZE, 4) \/ Short(buf, pos + NAME_SIZE + 4, 4)
           THEN [panic |-> EOF_MSG, objects |-> << >>]
           ELSE LET end == CHOOSE k \in ends : \A j \in ends : k <= j
                    \* from_utf8_lossy: a byte that is no ASCII character
                    \* is given as 65533, U+FFFD (multi-byte UTF-8 is not
                    \* modelled; the names written are ASCII)
                    name == [k \in 1..(end - 1) |->
                               IF name_buf[k] < 128 THEN name_buf[k] ELSE 65533]
                    x == I32FromBytes(Field(buf, pos + NAME_SIZE, 4))
                    y == I32FromBytes(Field(buf, pos + NAME_SIZE + 4, 4))
                IN  ReadObjects(buf, pos + NAME_SIZE + 8, left - 1,
                                Append(objects, [name |-> name, x |-> x, y |-> y]))

\* TileMap::new, lines 50-133, on the bytes of the file.  width * height and
\* the counts stay far from the i32 range in the files that are loaded.
TileMapNew(buf) ==
  IF Short(buf, 0, 4) THEN LoadPanic(EOF_MSG)
  ELSE IF Field(buf, 0, 4) # MAGIC THEN LoadPanic("Invalid tilemap file")
  ELSE IF \E k \in 1..5 : Short(buf, 4 * k, 4) THEN LoadPanic(EOF_MSG)
  ELSE
    LET width == I32FromBytes(Field(buf, 4, 4))
        height == I32FromBytes(Field(buf, 8, 4))
        player_start_x == I32FromBytes(Field(buf, 12, 4))
        player_start_y == I32FromBytes(Field(buf, 16, 4))
        num_tiles == I32FromBytes(Field(buf, 20, 4))
        atlas == 24
        \* the loop of lines 76-96 reads 16 bytes per tile type
        atlas_short == /\ num_tiles > 0
                       /\ \/ num_tiles > Len(buf)
                          \/ Short(buf, atlas, 16 * num_tiles)
        coords(k) == LET at == atlas + 16 * (k - 1)
                     IN  << F32FromBytes(Field(buf, at, 4)),
                            F32FromBytes(Field(buf, at + 4, 4)),
                            F32FromBytes(Field(buf, at + 8, 4)),
                            F32FromBytes(Field(buf, at + 12, 4)),
                            TILE_SIZE, TILE_SIZE, 0, 0 >>
        flags == atlas + 16 * num_tiles
        tiles == flags + num_tiles
        cells == width * height
        count == tiles + cells
    IN  IF atlas_short THEN LoadPanic(EOF_MSG)
        ELSE IF num_tiles < 0 THEN LoadPanic("capacity overflow")
        ELSE IF Short(buf, flags, num_tiles) THEN LoadPanic(EOF_MSG)
        ELSE IF cells < 0 THEN LoadPanic("capacity overflow")
        ELSE IF Short(buf, tiles, cells) THEN LoadPanic(EOF_MSG)
        ELSE IF Short(buf, count, 4) THEN LoadPanic(EOF_MSG)
        ELSE
          LET num_objects == U32FromBytes(Field(buf, count, 4))
              r == ReadObjects(buf, count + 4, num_objects, << >>)
          IN  IF r.panic # "" THEN LoadPanic(r.panic)
              ELSE Loaded(
                [width |-> width, height |-> height,
                 tiles |-> Field(buf, tiles, cells),
                 tile_flags |-> [k \in 1..num_tiles |->
                                   ByteBits(Field(buf, flags, num_tiles)[k])],
                 atlas_coords |-> [k \in 1..num_tiles |-> coords(k)],
                 objects |-> r.objects,
                 player_start_x |-> player_start_x,
                 player_start_y |-> player_start_y])

\* The object lists of the levels that are loaded.
ObjectLists ==
  { << >>,
    << Marker("arrow", 114, 400), Marker("arrow", 114, 440) >>,
    << Marker("balloon", 132, 402), Marker("arrow", 114, 400) >>,
    << Marker("seed", 300, 300), Marker("balloon", 132, 402) >>,
    << Marker("sensor", 130, 400), Marker("arrow", 114, 400) >>,
    << Marker("balloon", 132, 402), Marker("ghost", 0, 0) >> }

\* The objects of a level that is run without spawn_player: the first one, on
\* the right, is removed in the first frame (the arrow meets the balloon next
\* to it) and the balloon on the left becomes entities[0].
TrackedObjects ==
  << Marker("arrow", 590, 300), Marker("balloon", 610, 305),
     Marker("balloon", 300, 200) >>

\* The constructors registered with register_entity, by marker name.
Registered == {"arrow", "balloon", "sensor", "seed"}

\* entity_fns[name](x, y)
create_fn(name, x, y, id) ==
  CASE name = "arrow" -> ArrowNew(id, x * SUB, y * SUB, 0, 1000 * VSUB)
    [] name = "balloon" -> BalloonNew(id, x, y)
    [] name = "sensor" -> GenericNew(id, x, y, COLL_OBJ, COLL_PLAYER, TRUE, 0, -1)
    [] name = "seed" -> GenericNew(id, x, y, COLL_OBJ, {}, FALSE, 1, 1)

\* Entity vectors that a caller hands to do_frame.
RECURSIVE Build(_, _)
Build(markers, id) ==
  IF markers = << >> THEN << >>
  ELSE LET m == Head(markers)
       IN  << IF m.name = "player" THEN PlayerNew(id, m.x, m.y)
              ELSE create_fn(m.name, m.x, m.y, id) >>
           \o Build(Tail(markers), id + 1)

CallerVectors ==
  { << >>,
    << Marker("seed", 300, 300) >>,
    << Marker("arrow", 114, 400), Marker("arrow", 116, 400),
       Marker("player", 130, 384) >>,
    << Marker("arrow", 114, 400), Marker("arrow", 114, 401),
       Marker("balloon", 132, 402), Marker("sensor", 130, 400) >>,
    << Marker("sensor", 130, 400), Marker("player", 130, 384) >> }

\* Events one poll_iter() drain can deliver.
Event(type, key, repeat) == [type |-> type, key |-> key, repeat |-> repeat]

EventBursts ==
  { << >>,
    << Event("KeyDown", "X", FALSE) >>,
    << Event("KeyUp", "X", FALSE) >>,
    << Event("KeyDown", "Up", FALSE), Event("KeyDown", "Q", FALSE) >>,
    << Event("KeyDown", "Left", FALSE), Event("KeyDown", "X", TRUE) >>,
    << Event("KeyUp", "Up", FALSE), Event("Quit", "", FALSE),
       Event("KeyDown", "Z", FALSE) >>,
    << Event("KeyUp", "X", FALSE), Event("KeyDown", "Up", FALSE) >>,
    << Event("KeyDown", "Z", FALSE), Event("KeyUp", "Z", FALSE),
       Event("KeyDown", "Right", FALSE) >> }

\* Button masks a caller passes to do_frame.
CallerButtons == { {}, CONTROL_FIRE, CONTROL_LEFT \cup CONTROL_JUMP }

\* get_key_mask
get_key_mask(key) ==
  CASE key = "Up" -> CONTROL_UP
    [] key = "Down" -> CONTROL_DOWN
    [] key = "Left" -> CONTROL_LEFT
    [] key = "Right" -> CONTROL_RIGHT
    [] key = "X" -> CONTROL_FIRE
    [] key = "Z" -> CONTROL_JUMP
    [] OTHER -> {}

\* Mutant of PollEvents: a KeyDown that is a repeat sets the bit as well.
RECURSIVE PollEventsWithRepeats(_, _)
PollEventsWithRepeats(events, b) ==
  IF events = << >> THEN [buttons |-> b, quit |-> FALSE]
  ELSE LET ev == Head(events)
       IN  IF ev.type = "Quit" THEN [buttons |-> b, quit |-> TRUE]
           ELSE IF ev.type = "KeyDown"
           THEN PollEventsWithRepeats(Tail(events), b \cup get_key_mask(ev.key))
           ELSE IF ev.type = "KeyUp"
           THEN PollEventsWithRepeats(Tail(events), b \ get_key_mask(ev.key))
           ELSE PollEventsWithRepeats(Tail(events), b)

\* Lines 104-124: the event loop; stops at the first Quit.
RECURSIVE PollEvents(_, _)
PollEvents(events, b) ==
  IF events = << >> THEN [buttons |-> b, quit |-> FALSE]
  ELSE LET ev == Head(events)
       IN  IF ev.type = "Quit" THEN [buttons |-> b, quit |-> TRUE]
           ELSE IF ev.type = "KeyDown" /\ ~ev.repeat
           THEN PollEvents(Tail(events), b \cup get_key_mask(ev.key))
           ELSE IF ev.type = "KeyUp"
           THEN PollEvents(Tail(events), b \ get_key_mask(ev.key))
           ELSE PollEvents(Tail(events), b)

\* ------------------------------------------------------------------- state
VARIABLES
  prog,          \* the frame driver: "run" (GameEngine::run), "do_frame" or
                 \*   "main" (the loop of game/main.rs)
  pc,            \* the step the driver is about to execute
  tile_map,      \* GameEngine.tile_map
  entities,      \* GameEngine.entities / do_frame's entities
  new_entities,  \* the spawn list
  buttons,       \* the buttons mask
  x_scroll, y_scroll,
  offset,        \* RenderContext.offset
  batch,         \* ghost: the draw_image calls since the last flush, in order
  u,             \* place of the next entity of the update pass
  frame,         \* number of frames started
  panic,         \* the panic message once pc = "panic"
  next_id,       \* ghost: identity of the next entity constructed
  steps,         \* ghost: the steps executed so far in this frame
  tests,         \* ghost: log of this frame's collision pass
  updated,       \* ghost: this frame's update() calls: [id, live, buttons],
                 \*        buttons being the mask the call was given, live being
                 \*        is_live() of the entity when the call was made
  spawn_log,     \* ghost: this frame's pushes: [parent, child] ids
  at_start,      \* ghost: the vector at the start of the frame
  newcomers,     \* ghost: ids of the entities integrated in the previous frame
  before_prune,  \* ghost: the vector handed to retain()
  player_spawned,\* ghost: spawn_player was called before run
  file,          \* the map file load_tile_map is given: its bytes, and
                 \*   (ghost) the TileMapInfo it was written from and how
  probe,         \* the last tile-map query made on the loaded map, its answer
  vertices,      \* RenderContext.vertices: the floats of the batch
  gl_draws,      \* ghost: the DrawArrays calls since the frame began: how
                 \*   many, the vertex count of the last one, the floats its
                 \*   BufferData uploaded, the placements made before it
  menu_open,     \* main.rs: the menu is shown and the simulation paused
  old_menu_pressed, \* main.rs: the menu button was down in the last frame
  menu_anim,     \* main.rs: the Interpolator of the menu panel (t, in frames)
  quad_calls,    \* ghost: the draw_quad calls of draw_nine_tile in this frame
  key_state      \* ghost: per key, the type of the last key event polled
                 \*   that was not a repeat ("KeyDown", "KeyUp" or "none")

vars ==
  << prog, pc, tile_map, entities, new_entities, buttons, x_scroll, y_scroll,
     offset, batch, u, frame, panic, next_id, steps, tests, updated,
     spawn_log, at_start, newcomers, before_prune, player_spawned, file, probe,
     vertices, gl_draws, menu_open, old_menu_pressed, menu_anim, quad_calls,
     key_state >>

render_vars == << vertices, gl_draws >>
menu_vars == << menu_open, old_menu_pressed, menu_anim, quad_calls >>

Ids(es) == [k \in 1..Len(es) |-> es[k].id]

\* No query has been made.
NoProbe == [op |-> "none"]

\* The map is not loaded from a file in this run.
NoFile == [bytes |-> << >>, info |-> DefaultTileMap, kind |-> "none"]

\* No draw call has been issued in this frame.
NoDraws == [calls |-> 0, count |-> 0, floats |-> 0, placed |-> 0]

\* The keys of the events that are delivered.
Keys == {"Up", "Down", "Left", "Right", "X", "Z", "Q", "Escape"}

\* ui::Interpolator::new(0.0, cubic_inout); t and max_t in frames (1/60 s),
\* the values times 1000.
InterpolatorNew ==
  [t |-> FramesPerSecond, max_t |-> FramesPerSecond, start_value |-> 0,
   end_value |-> 0, multiplier |-> 0]

\* The values the constructors leave in the render context, the locals of
\* main and the ghosts of the event queue.
InitRest ==
  /\ vertices = << >>
  /\ gl_draws = NoDraws
  /\ menu_open = FALSE
  /\ old_menu_pressed = FALSE
  /\ menu_anim = InterpolatorNew
  /\ quad_calls = << >>
  /\ key_state = [k \in Keys |-> "none"]

\* GameEngine::spawn_player
spawn_player(tm, id) == PlayerNew(id, tm.player_start_x, tm.player_start_y)

\* Construction.  prog = "run": GameEngine::new, register_entity,
\* load_tile_map and (unless the caller left it out) spawn_player have run and
\* run() is entered.  prog = "do_frame": a caller is about to call do_frame.
InitRunLevel(tm, with_player) ==
  /\ prog = "run"
  /\ pc = "create_entities"
  /\ tile_map = tm
  /\ entities = IF with_player THEN << spawn_player(tm, 1) >> ELSE << >>
  /\ next_id = IF with_player THEN 2 ELSE 1
  /\ player_spawned = with_player

InitRun(objects, with_player) == InitRunLevel(Level(objects), with_player)

\* The levels game/main.rs is started on.
MainObjectLists ==
  { << Marker("arrow", 114, 400), Marker("arrow", 114, 440) >>,
    << Marker("balloon", 132, 402), Marker("arrow", 114, 400) >> }

\* main.rs lines 21-49: the map is loaded and the player spawned; the loop's
\* first statement, create_entities, is next.
InitMain(objects) ==
  /\ prog = "main"
  /\ pc = "create_entities"
  /\ tile_map = Level(objects)
  /\ entities = << spawn_player(Level(objects), 1) >>
  /\ next_id = 2
  /\ player_spawned = TRUE

InitDoFrame(markers) ==
  /\ prog = "do_frame"
  /\ pc = "call"
  /\ tile_map = Level(<< >>)
  /\ entities = Build(markers, 1)
  /\ next_id = Len(markers) + 1
  /\ player_spawned = FALSE

Init ==
  /\ \/ \E objects \in ObjectLists : InitRun(objects, TRUE)
     \/ \E tm \in OtherLevels : InitRunLevel(tm, TRUE)
     \/ InitRun(<< >>, FALSE)
     \/ InitRun(TrackedObjects, FALSE)
     \/ \E objects \in MainObjectLists : InitMain(objects)
     \/ \E markers \in CallerVectors : InitDoFrame(markers)
  /\ new_entities = << >>
  /\ buttons = {}
  /\ x_scroll = 0
  /\ y_scroll = 0
  /\ offset = [x |-> 0, y |-> 0]
  /\ batch = << >>
  /\ u = 1
  /\ frame = 0
  /\ panic = ""
  /\ steps = << >>
  /\ tests = << >>
  /\ updated = << >>
  /\ spawn_log = << >>
  /\ at_start = entities
  /\ newcomers = {}
  /\ before_prune = << >>
  /\ file = NoFile
  /\ probe = NoProbe
  /\ InitRest

\* ----------------------------------------------------------------- actions
\* Mutant of NextStep: pruning is done before integration.
NextStepPruneFirst(driver, step) ==
  IF driver = "run"
  THEN CASE step = "create_entities" -> "poll"
         [] step = "poll" -> "camera"
         [] step = "camera" -> "tile_draw"
         [] step = "tile_draw" -> "collide"
         [] step = "collide" -> "update"
         [] step = "update" -> "prune"
         [] step = "prune" -> "integrate"
         [] step = "integrate" -> "draw"
         [] step = "draw" -> "render"
         [] step = "render" -> "poll"
  ELSE IF driver = "main"
  THEN CASE step = "create_entities" -> "poll"
         [] step = "poll" -> "menu"
         [] step = "menu" -> "camera"
         [] step = "camera" -> "collide"
         [] step = "collide" -> "update"
         [] step = "update" -> "prune"
         [] step = "prune" -> "integrate"
         [] step = "integrate" -> "tile_draw"
         [] step = "tile_draw" -> "draw"
         [] step = "draw" -> "menu_draw"
         [] step = "menu_draw" -> "render"
         [] step = "render" -> "poll"
  ELSE CASE step = "call" -> "collide"
         [] step = "collide" -> "update"
         [] step = "update" -> "prune"
         [] step = "prune" -> "integrate"
         [] step = "integrate" -> "draw"
         [] step = "draw" -> "call"

\* The step that follows `step` in the body of the driver's loop.  In main
\* the steps from "camera" to "prune" are inside `if !menu_open`, which the
\* "menu" step decides.
NextStep(driver, step) ==
  IF driver = "run"
  THEN CASE step = "create_entities" -> "poll"
         [] step = "poll" -> "camera"
         [] step = "camera" -> "tile_draw"
         [] step = "tile_draw" -> "collide"
         [] step = "collide" -> "update"
         [] step = "update" -> "integrate"
         [] step = "integrate" -> "prune"
         [] step = "prune" -> "draw"
         [] step = "draw" -> "render"
         [] step = "render" -> "poll"
  ELSE IF driver = "main"
  THEN CASE step = "create_entities" -> "poll"
         [] step = "poll" -> "menu"
         [] step = "menu" -> "camera"
         [] step = "camera" -> "collide"
         [] step = "collide" -> "update"
         [] step = "update" -> "integrate"
         [] step = "integrate" -> "prune"
         [] step = "prune" -> "tile_draw"
         [] step = "tile_draw" -> "draw"
         [] step = "draw" -> "menu_draw"
         [] step = "menu_draw" -> "render"
         [] step = "render" -> "poll"
  ELSE CASE step = "call" -> "collide"
         [] step = "collide" -> "update"
         [] step = "update" -> "integrate"
         [] step = "integrate" -> "prune"
         [] step = "prune" -> "draw"
         [] step = "draw" -> "call"

Panic(msg) == pc' = "panic" /\ panic' = msg

\* The markers before the first one whose name has no constructor.
RECURSIVE Creatable(_)
Creatable(markers) ==
  IF markers = << >> \/ Head(markers).name \notin Registered THEN << >>
  ELSE << Head(markers) >> \o Creatable(Tail(markers))

\* Mutant of CreateEntities: a marker whose name has no constructor is
\* passed over (if let Some(create_fn) = .. in place of unwrap).
CreateEntitiesSkipping ==
  /\ prog \in {"run", "main"} /\ pc = "create_entities"
  /\ LET known == SelectSeq(tile_map.objects, LAMBDA m : m.name \in Registered)
     IN  /\ entities' = entities \o Build(known, next_id)
         /\ next_id' = next_id + Len(known)
         /\ pc' = NextStep(prog, pc) /\ panic' = panic
  /\ at_start' = entities'
  /\ UNCHANGED << newcomers, prog, render_vars, menu_vars, key_state, player_spawned, file, probe, tile_map,
                  new_entities, buttons, x_scroll, y_scroll, offset, batch, u,
                  frame, steps, tests, updated, spawn_log, before_prune >>

\* GameEngine::create_entities (called at the top of run)
CreateEntities ==
  /\ prog \in {"run", "main"} /\ pc = "create_entities"
  /\ LET ok == Creatable(tile_map.objects)
     IN  /\ entities' = entities \o Build(ok, next_id)
         /\ next_id' = next_id + Len(ok)
         /\ IF Len(ok) < Len(tile_map.objects)
            THEN Panic("called Option::unwrap() on a None value")
            ELSE pc' = NextStep(prog, pc) /\ panic' = panic
  /\ at_start' = entities'
  /\ UNCHANGED << newcomers, prog, render_vars, menu_vars, key_state, player_spawned, file, probe, tile_map, new_entities, buttons, x_scroll, y_scroll,
                  offset, batch, u, frame, steps, tests, updated, spawn_log, before_prune >>

\* The events of a burst that the loop takes from the queue: those up to
\* the first Quit, which leaves the loop.
RECURSIVE Polled(_)
Polled(events) ==
  IF events = << >> \/ Head(events).type = "Quit" THEN << >>
  ELSE << Head(events) >> \o Polled(Tail(events))

\* Ghost: per key, the type of its last event that is not a repeat.
RECURSIVE KeyStateAfter(_, _)
KeyStateAfter(events, ks) ==
  IF events = << >> THEN ks
  ELSE LET ev == Head(events)
       IN  KeyStateAfter(Tail(events),
                         IF ev.type = "KeyDown" /\ ev.repeat THEN ks
                         ELSE [ks EXCEPT ![ev.key] = ev.type])

\* run, lines 104-124: drain the event queue at the top of the loop body
Poll ==
  /\ prog = "run" /\ pc = "poll" /\ frame < MaxFrames
  /\ \E burst \in EventBursts :
       LET r == PollEvents(burst, buttons)
       IN  /\ buttons' = r.buttons
           /\ pc' = IF r.quit THEN "done" ELSE NextStep(prog, pc)
           /\ frame' = IF r.quit THEN frame ELSE frame + 1
           /\ key_state' = KeyStateAfter(Polled(burst), key_state)
  /\ gl_draws' = NoDraws
  /\ steps' = << >>
  /\ tests' = << >>
  /\ updated' = << >>
  /\ spawn_log' = << >>
  /\ at_start' = entities
  /\ newcomers' = {spawn_log[k].child : k \in DOMAIN spawn_log}
  /\ before_prune' = << >>
  /\ UNCHANGED << prog, vertices, menu_vars, player_spawned, file, probe, tile_map, entities, new_entities, x_scroll, y_scroll,
                  offset, batch, u, panic, next_id >>

\* A caller of do_frame calls it with some buttons mask, having flushed the
\* render context it passes since the previous call.
DoFrameCall ==
  /\ prog = "do_frame" /\ pc = "call" /\ frame < MaxFrames
  /\ \E b \in CallerButtons : buttons' = b
  /\ batch' = << >>
  /\ vertices' = << >>
  /\ gl_draws' = NoDraws
  /\ pc' = NextStep(prog, pc)
  /\ frame' = frame + 1
  /\ steps' = << >>
  /\ tests' = << >>
  /\ updated' = << >>
  /\ spawn_log' = << >>
  /\ at_start' = entities
  /\ newcomers' = {spawn_log[k].child : k \in DOMAIN spawn_log}
  /\ before_prune' = << >>
  /\ UNCHANGED << prog, menu_vars, key_state, player_spawned, file, probe, tile_map, entities, new_entities, x_scroll, y_scroll,
                  offset, u, panic, next_id >>

max_x_scroll(tm) == tm.width * TILE_SIZE - WINDOW_WIDTH
max_y_scroll(tm) == tm.height * TILE_SIZE - WINDOW_HEIGHT

\* Mutant of Scroll: the near edge is held on the far boundary.
ScrollOneBoundary(scroll, near, far, near_boundary, far_boundary, max_scroll) ==
  IF far > scroll + far_boundary THEN Min(far - far_boundary, max_scroll)
  ELSE IF near < scroll + far_boundary THEN Max(0, near - far_boundary)
  ELSE scroll

\* Lines 127-143: the new scroll of one axis; near/far are the tracked box's
\* left/right (top/bottom) edges.
Scroll(scroll, near, far, near_boundary, far_boundary, max_scroll) ==
  IF far > scroll + far_boundary THEN Min(far - far_boundary, max_scroll)
  ELSE IF near < scroll + near_boundary THEN Max(0, near - near_boundary)
  ELSE scroll

\* run, lines 126-145, main.rs lines 84-103: camera scroll from the first
\* entity's box
CameraUpdate ==
  /\ prog \in {"run", "main"} /\ pc = "camera"
  /\ IF Len(entities) = 0
     THEN /\ Panic("index out of bounds: the len is 0 but the index is 0")
          /\ UNCHANGED << x_scroll, y_scroll, offset, steps >>
     ELSE LET player_rect == get_bounding_box(entities[1])
              xs == Scroll(x_scroll, player_rect.left, Right(player_rect),
                           LEFT_SCROLL_BOUNDARY, RIGHT_SCROLL_BOUNDARY,
                           max_x_scroll(tile_map))
              ys == Scroll(y_scroll, player_rect.top, Bottom(player_rect),
                           TOP_SCROLL_BOUNDARY, BOTTOM_SCROLL_BOUNDARY,
                           max_y_scroll(tile_map))
          IN  /\ x_scroll' = xs
              /\ y_scroll' = ys
              /\ offset' = [x |-> xs, y |-> ys]
              /\ pc' = NextStep(prog, pc)
              /\ panic' = panic
              /\ steps' = Append(steps, "camera")
  /\ UNCHANGED << prog, render_vars, menu_vars, key_state, player_spawned, file, probe, tile_map, entities, new_entities, buttons, batch, u,
                  frame, next_id, tests, updated, spawn_log, at_start, newcomers, before_prune >>

\* A sprite descriptor (gfx::SpriteInfo): the atlas rectangle in 1/ATLAS_SIZE
\* (the f32 it holds is k / 512), the size in pixels and the local origin.
SpriteInfo(atlas_left, atlas_top, atlas_right, atlas_bottom, width, height, originx, originy) ==
  [atlas_left |-> atlas_left, atlas_top |-> atlas_top,
   atlas_right |-> atlas_right, atlas_bottom |-> atlas_bottom,
   width |-> width, height |-> height, originx |-> originx,
   originy |-> originy]

\* The descriptors of the sprites that are placed: the constants that
\* write_sprite_locations generates for the game's sprites, and for a tile
\* type the entry TileMap::new builds (TILE_SIZE square, origin 0).  The body
\* sprite's height less its origin is the player's ground_offset.
image_info(sprite) ==
  CASE sprite = "TILE_SOLID" -> SpriteInfo(0, 0, 64, 64, TILE_SIZE, TILE_SIZE, 0, 0)
    [] sprite = "TILE_LADDER" -> SpriteInfo(64, 0, 128, 64, TILE_SIZE, TILE_SIZE, 0, 0)
    [] sprite = "PLAYER_BODY" -> SpriteInfo(0, 64, 32, 128, 32, 64, 16, 64 - GroundOffset)
    [] sprite = "PLAYER_ARMS" -> SpriteInfo(32, 64, 64, 96, 32, 32, 16, 16)
    [] sprite = "PLAYER_BOW_ON_BACK" -> SpriteInfo(64, 64, 80, 112, 16, 48, 8, 24)
    [] sprite = "PLAYER_BOW_DRAWN" -> SpriteInfo(80, 64, 128, 112, 48, 48, 12, 24)
    [] sprite = "PLAYER_CLIMB" -> SpriteInfo(128, 64, 160, 128, 32, 64, 16, 16)
    [] sprite = "PLAYER_DEAD" -> SpriteInfo(160, 64, 224, 80, 64, 16, 32, 8)
    [] sprite = "ARROW" -> SpriteInfo(0, 128, 28, 135, 28, 7, 14, 3)
    [] sprite = "BALLOON" -> SpriteInfo(32, 128, 52, 158, 20, 30, 10, 15)
    [] sprite = "GENERIC" -> SpriteInfo(64, 128, 80, 144, 16, 16, 0, 0)

\* gfx::rotate with the matrix (crot, -srot, srot, crot): a point given in
\* pixels, the result in 1/1000 pixel (crot and srot are times 1000).
rotate(point, crot, srot) ==
  [x |-> crot * point.x - srot * point.y,
   y |-> srot * point.x + crot * point.y]

\* to_ogl_coord: pt in 1/1000 pixel, position in pixels; the x of the
\* result in 1/(1000 * WINDOW_WIDTH), the y in 1/(1000 * WINDOW_HEIGHT).
to_ogl_coord(pt, position) ==
  [x |-> 2 * (pt.x + 1000 * position.x) - 1000 * WINDOW_WIDTH,
   y |-> 1000 * WINDOW_HEIGHT - 2 * (pt.y + 1000 * position.y)]

\* Mutant of Quad: the quad is submitted as four vertices (an indexed quad)
\* instead of two triangles.
QuadFourVertices(off, pl) ==
  LET info == image_info(pl.sprite)
      position == [x |-> pl.x - off.x, y |-> pl.y - off.y]
      atlas_left == IF pl.flip_h THEN info.atlas_right ELSE info.atlas_left
      atlas_right == IF pl.flip_h THEN info.atlas_left ELSE info.atlas_right
      display_left == -info.originx
      display_top == -info.originy
      display_right == display_left + info.width
      display_bottom == display_top + info.height
      corner(x, y) ==
        to_ogl_coord(IF pl.rotated THEN rotate([x |-> x, y |-> y], pl.crot, pl.srot)
                     ELSE [x |-> 1000 * x, y |-> 1000 * y],
                     position)
      p0 == corner(display_left, display_top)
      p1 == corner(display_right, display_top)
      p2 == corner(display_left, display_bottom)
      p3 == corner(display_right, display_bottom)
  IN  << p0.x, p0.y, atlas_left, info.atlas_top,
         p1.x, p1.y, atlas_right, info.atlas_top,
         p2.x, p2.y, atlas_left, info.atlas_bottom,
         p3.x, p3.y, atlas_right, info.atlas_bottom >>

\* RenderContext::draw_image, lines 215-293: the 24 floats one call appends
\* to self.vertices; `off` is self.offset.
Quad(off, pl) ==
  LET info == image_info(pl.sprite)
      position == [x |-> pl.x - off.x, y |-> pl.y - off.y]
      atlas_left == IF pl.flip_h THEN info.atlas_right ELSE info.atlas_left
      atlas_right == IF pl.flip_h THEN info.atlas_left ELSE info.atlas_right
      display_left == -info.originx
      display_top == -info.originy
      display_right == display_left + info.width
      display_bottom == display_top + info.height
      corner(x, y) ==
        to_ogl_coord(IF pl.rotated THEN rotate([x |-> x, y |-> y], pl.crot, pl.srot)
                     ELSE [x |-> 1000 * x, y |-> 1000 * y],
                     position)
      p0 == corner(display_left, display_top)
      p1 == corner(display_right, display_top)
      p2 == corner(display_left, display_bottom)
      p3 == corner(display_right, display_bottom)
  IN  << p0.x, p0.y, atlas_left, info.atlas_top,
         p1.x, p1.y, atlas_right, info.atlas_top,
         p2.x, p2.y, atlas_left, info.atlas_bottom,
         p1.x, p1.y, atlas_right, info.atlas_top,
         p3.x, p3.y, atlas_right, info.atlas_bottom,
         p2.x, p2.y, atlas_left, info.atlas_bottom >>

\* self.vertices after the draw_image calls for the placements pls, in order
RECURSIVE ExtendAll(_, _, _)
ExtendAll(v, off, pls) ==
  IF pls = << >> THEN v
  ELSE ExtendAll(v \o Quad(off, Head(pls)), off, Tail(pls))

\* RenderContext::draw_image: append one placement, relative to the offset
draw_image(b, off, pl) ==
  Append(b, [pl EXCEPT !.x = pl.x - off.x, !.y = pl.y - off.y])

RECURSIVE DrawAll(_, _, _)
DrawAll(b, off, pls) ==
  IF pls = << >> THEN b
  ELSE DrawAll(draw_image(b, off, Head(pls)), off, Tail(pls))

\* run, lines 147-150, main.rs lines 123-126: the tile map is drawn for the
\* visible rectangle
DrawTileMap ==
  /\ prog \in {"run", "main"} /\ pc = "tile_draw"
  /\ \E r \in {TileMapDraw(tile_map, Rect(x_scroll, y_scroll, WINDOW_WIDTH,
                                          WINDOW_HEIGHT))} :
         IF r.panic
         THEN Panic("index out of bounds") /\ UNCHANGED << batch, vertices, steps >>
         ELSE /\ batch' = DrawAll(batch, offset, r.placements)
              /\ vertices' = ExtendAll(vertices, offset, r.placements)
              /\ pc' = NextStep(prog, pc)
              /\ panic' = panic
              /\ steps' = Append(steps, "tile_draw")
  /\ UNCHANGED << prog, gl_draws, menu_vars, key_state, player_spawned, file, probe, tile_map, entities, new_entities, buttons, x_scroll,
                  y_scroll, offset, u, frame, next_id, tests, updated, spawn_log,
                  at_start, newcomers, before_prune >>

\* run line 157, do_frame line 66: the collision pass
HandleCollisions ==
  /\ pc = "collide"
  /\ LET r == handle_collisions(entities)
     IN  IF r.panics # {}
         THEN /\ \E msg \in r.panics : Panic(msg)
              /\ UNCHANGED << entities, tests, steps, u >>
         ELSE /\ entities' = r.entities
              /\ tests' = r.log
              /\ steps' = Append(steps, "collide")
              /\ u' = 1
              /\ pc' = NextStep(prog, pc)
              /\ panic' = panic
  /\ UNCHANGED << prog, render_vars, menu_vars, key_state, player_spawned, file, probe, tile_map, new_entities, buttons, x_scroll, y_scroll,
                  offset, batch, frame, next_id, updated, spawn_log, at_start, newcomers,
                  before_prune >>

\* Mutant of UpdateEntity: update is not called on an entity that is not live.
UpdateEntityLiveOnly ==
  /\ pc = "update" /\ u <= Len(entities)
  /\ LET call == is_live(entities[u])
         r == IF call THEN update(entities[u], buttons, tile_map, next_id)
              ELSE [self |-> entities[u], spawned |-> << >>]
     IN  /\ entities' = [entities EXCEPT ![u] = r.self]
         /\ new_entities' = new_entities \o r.spawned
         /\ next_id' = next_id + Len(r.spawned)
         /\ spawn_log' = spawn_log \o
              [k \in 1..Len(r.spawned) |->
                 [parent |-> entities[u].id, child |-> r.spawned[k].id]]
         /\ updated' = IF call
                       THEN Append(updated, [id |-> entities[u].id, live |-> TRUE,
                                             buttons |-> buttons])
                       ELSE updated
  /\ u' = u + 1
  /\ IF u = Len(entities)
     THEN pc' = NextStep(prog, pc) /\ steps' = Append(steps, "update")
     ELSE UNCHANGED << pc, steps >>
  /\ UNCHANGED << prog, render_vars, menu_vars, key_state, player_spawned, file, probe, tile_map, buttons, x_scroll, y_scroll, offset, batch,
                  frame, panic, tests, at_start, newcomers, before_prune >>

\* run lines 158-166, do_frame lines 68-70: one turn of the update loop.
\* The vector is never empty here: an empty one panics before this loop.
UpdateEntity ==
  /\ pc = "update" /\ u <= Len(entities)
  /\ LET r == update(entities[u], buttons, tile_map, next_id)
     IN  /\ entities' = [entities EXCEPT ![u] = r.self]
         /\ new_entities' = new_entities \o r.spawned
         /\ next_id' = next_id + Len(r.spawned)
         /\ spawn_log' = spawn_log \o
              [k \in 1..Len(r.spawned) |->
                 [parent |-> entities[u].id, child |-> r.spawned[k].id]]
  /\ updated' = Append(updated, [id |-> entities[u].id, live |-> is_live(entities[u]),
                                 buttons |-> buttons])
  /\ u' = u + 1
  /\ IF u = Len(entities)
     THEN pc' = NextStep(prog, pc) /\ steps' = Append(steps, "update")
     ELSE UNCHANGED << pc, steps >>
  /\ UNCHANGED << prog, render_vars, menu_vars, key_state, player_spawned, file, probe, tile_map, buttons, x_scroll, y_scroll, offset, batch,
                  frame, panic, tests, at_start, newcomers, before_prune >>

\* Mutant of Integrate: the spawn list is put in front of the vector.
IntegratePrepend ==
  /\ pc = "integrate"
  /\ entities' = new_entities \o entities
  /\ new_entities' = << >>
  /\ pc' = NextStep(prog, pc)
  /\ steps' = Append(steps, "integrate")
  /\ UNCHANGED << prog, render_vars, menu_vars, key_state, player_spawned, file, probe, tile_map, buttons, x_scroll, y_scroll, offset, batch,
                  u, frame, panic, next_id, tests, updated, spawn_log, at_start,
                  newcomers, before_prune >>

\* Mutant of Integrate: the spawn list is cleared without being appended.
IntegrateDrop ==
  /\ pc = "integrate"
  /\ entities' = entities
  /\ new_entities' = << >>
  /\ pc' = NextStep(prog, pc)
  /\ steps' = Append(steps, "integrate")
  /\ UNCHANGED << prog, render_vars, menu_vars, key_state, player_spawned, file, probe, tile_map, buttons, x_scroll, y_scroll, offset, batch,
                  u, frame, panic, next_id, tests, updated, spawn_log, at_start,
                  newcomers, before_prune >>

\* run lines 168-169, do_frame line 72: entities.append(&mut new_entities)
Integrate ==
  /\ pc = "integrate"
  /\ entities' = entities \o new_entities
  /\ new_entities' = << >>
  /\ pc' = NextStep(prog, pc)
  /\ steps' = Append(steps, "integrate")
  /\ UNCHANGED << prog, render_vars, menu_vars, key_state, player_spawned, file, probe, tile_map, buttons, x_scroll, y_scroll, offset, batch,
                  u, frame, panic, next_id, tests, updated, spawn_log, at_start, newcomers,
                  before_prune >>

\* Mutant of Retain: a dead entity is removed with swap_remove, which moves
\* the last entity into its place.
RECURSIVE SwapRemoveFrom(_, _)
SwapRemoveFrom(es, k) ==
  IF k > Len(es) THEN es
  ELSE IF is_live(es[k]) THEN SwapRemoveFrom(es, k + 1)
  ELSE SwapRemoveFrom(
         SubSeq([es EXCEPT ![k] = es[Len(es)]], 1, Len(es) - 1), k)

RetainSwapRemove(es) == SwapRemoveFrom(es, 1)

\* Mutant of Retain: removal inside a forward index loop that steps past the
\* entity that moved into the freed place.
RECURSIVE RemoveSkippingFrom(_, _)
RemoveSkippingFrom(es, k) ==
  IF k > Len(es) THEN es
  ELSE IF is_live(es[k]) THEN RemoveSkippingFrom(es, k + 1)
  ELSE RemoveSkippingFrom(SubSeq(es, 1, k - 1) \o SubSeq(es, k + 1, Len(es)), k + 1)

RetainSkipping(es) == RemoveSkippingFrom(es, 1)

\* Vec::retain(|entity| entity.is_live())
Retain(es) == SelectSeq(es, is_live)

\* run line 172, do_frame line 75: pruning
Prune ==
  /\ pc = "prune"
  /\ entities' = Retain(entities)
  /\ before_prune' = entities
  /\ pc' = NextStep(prog, pc)
  /\ steps' = Append(steps, "prune")
  /\ UNCHANGED << prog, render_vars, menu_vars, key_state, player_spawned, file, probe, tile_map, new_entities, buttons, x_scroll, y_scroll,
                  offset, batch, u, frame, panic, next_id, tests, updated, spawn_log,
                  at_start, newcomers >>

\* Mutant of DrawList: the vector is drawn back to front.
RECURSIVE DrawListReversed(_)
DrawListReversed(es) ==
  IF es = << >> THEN << >> ELSE DrawListReversed(Tail(es)) \o draw(Head(es))

\* The draw_image calls of the draw loop over the vector, in order.
RECURSIVE DrawList(_)
DrawList(es) ==
  IF es = << >> THEN << >> ELSE draw(Head(es)) \o DrawList(Tail(es))

\* run lines 174-176, do_frame lines 77-79: the entity draw pass
DrawEntities ==
  /\ pc = "draw"
  /\ batch' = DrawAll(batch, offset, DrawList(entities))
  /\ vertices' = ExtendAll(vertices, offset, DrawList(entities))
  /\ pc' = NextStep(prog, pc)
  /\ steps' = Append(steps, "draw")
  /\ UNCHANGED << prog, gl_draws, menu_vars, key_state, player_spawned, file, probe, tile_map, entities, new_entities, buttons, x_scroll,
                  y_scroll, offset, u, frame, panic, next_id, tests, updated, spawn_log,
                  at_start, newcomers, before_prune >>

\* What RenderContext::render leaves: BufferData uploads all of
\* self.vertices, one DrawArrays call draws len / ATTR_ELEMS_PER_VERTEX
\* vertices from the first, and self.vertices is cleared.
render(v, draws, placed) ==
  [vertices |-> << >>,
   draws |-> [calls |-> draws.calls + 1,
              count |-> Len(v) \div ATTR_ELEMS_PER_VERTEX,
              floats |-> Len(v),
              placed |-> placed]]

\* run line 178, main line 145: render_context.render()
Render ==
  /\ prog \in {"run", "main"} /\ pc = "render"
  /\ LET r == render(vertices, gl_draws, Len(batch))
     IN  vertices' = r.vertices /\ gl_draws' = r.draws
  /\ batch' = << >>
  /\ pc' = NextStep(prog, pc)
  /\ steps' = Append(steps, "render")
  /\ UNCHANGED << prog, menu_vars, key_state, player_spawned, file, probe, tile_map, entities, new_entities, buttons, x_scroll,
                  y_scroll, offset, u, frame, panic, next_id, tests, updated, spawn_log,
                  at_start, newcomers, before_prune >>

\* --------------------------------------------------------- the game's loop
\* game/main.rs drives the same passes itself, and pauses them while its menu
\* is open.  It reads the buttons through GameEngine::poll_events and
\* entity::CONTROL_MENU.
CONTROL_MENU == {6}

\* GameEngine::poll_events: the event loop of run as a method that leaves the
\* mask in eng.buttons and the Quit in eng.quit; the Escape key is the menu
\* button.
RECURSIVE poll_events(_, _)
poll_events(events, b) ==
  IF events = << >> THEN [buttons |-> b, quit |-> FALSE]
  ELSE LET ev == Head(events)
           mask == IF ev.key = "Escape" THEN CONTROL_MENU
                   ELSE get_key_mask(ev.key)
       IN  IF ev.type = "Quit" THEN [buttons |-> b, quit |-> TRUE]
           ELSE IF ev.type = "KeyDown" /\ ~ev.repeat
           THEN poll_events(Tail(events), b \cup mask)
           ELSE IF ev.type = "KeyUp"
           THEN poll_events(Tail(events), b \ mask)
           ELSE poll_events(Tail(events), b)

\* Events one poll_events() call can find in the queue.
MainBursts ==
  { << >>,
    << Event("KeyDown", "Escape", FALSE) >>,
    << Event("KeyUp", "Escape", FALSE) >>,
    << Event("KeyUp", "Escape", FALSE), Event("KeyDown", "Escape", FALSE) >>,
    << Event("KeyDown", "X", FALSE) >>,
    << Event("KeyUp", "X", FALSE) >>,
    << Event("Quit", "", FALSE) >> }

\* Interpolator::start; the time in frames, the values times 1000
InterpolatorStart(i, time, start, end) ==
  [t |-> 0, max_t |-> time, start_value |-> start, end_value |-> end,
   multiplier |-> (1000 * 1000) \div (end - start)]

\* ui::cubic_inout of t / max_t, times 1000
cubic_inout(t, max_t) ==
  IF 2 * t < max_t
  THEN (4000 * t * t * t) \div (max_t * max_t * max_t)
  ELSE 1000 - (4000 * (max_t - t) * (max_t - t) * (max_t - t))
                \div (max_t * max_t * max_t)

\* Interpolator::update(D_T): the interpolator afterwards and the value
InterpolatorUpdate(i) ==
  IF i.t < i.max_t
  THEN LET t == Min(i.t + 1, i.max_t)
       IN  [self |-> [i EXCEPT !.t = t],
            value |-> i.start_value
                      + (cubic_inout(t, i.max_t) * i.multiplier) \div 1000]
  ELSE [self |-> i, value |-> i.end_value]

\* One draw_quad call: the four corners and the number of the tile (0..8).
QuadCall(tile, p0, p1, p2, p3) ==
  [tile |-> tile, p0 |-> p0, p1 |-> p1, p2 |-> p2, p3 |-> p3]

\* ui::draw_nine_tile: its nine draw_quad calls, in order
draw_nine_tile(left, top, width, height) ==
  LET right == left + width
      bottom == top + height
      xs == << left, left + 20, right - 20, right >>
      ys == << top, top + 20, bottom - 20, bottom >>
  IN  [k \in 1..9 |->
         LET col == ((k - 1) % 3) + 1
             row == ((k - 1) \div 3) + 1
         IN  QuadCall(k - 1, << xs[col], ys[row] >>, << xs[col + 1], ys[row] >>,
                      << xs[col], ys[row + 1] >>, << xs[col + 1], ys[row + 1] >>)]

\* main.rs lines 58-62: poll_events, and the break on quit
PollMain ==
  /\ prog = "main" /\ pc = "poll" /\ frame < MaxFrames
  /\ \E burst \in MainBursts :
       LET r == poll_events(burst, buttons)
       IN  /\ buttons' = r.buttons
           /\ pc' = IF r.quit THEN "done" ELSE NextStep(prog, pc)
           /\ frame' = IF r.quit THEN frame ELSE frame + 1
           /\ key_state' = KeyStateAfter(Polled(burst), key_state)
  /\ gl_draws' = NoDraws
  /\ quad_calls' = << >>
  /\ steps' = << >>
  /\ tests' = << >>
  /\ updated' = << >>
  /\ spawn_log' = << >>
  /\ at_start' = entities
  /\ newcomers' = {spawn_log[k].child : k \in DOMAIN spawn_log}
  /\ before_prune' = << >>
  /\ UNCHANGED << prog, vertices, menu_open, old_menu_pressed, menu_anim,
                  player_spawned, file, probe, tile_map, entities, new_entities,
                  x_scroll, y_scroll, offset, batch, u, panic, next_id >>

\* Mutant of MenuToggle: the passes run whether the menu is open or not.
MenuToggleKeepsRunning ==
  /\ prog = "main" /\ pc = "menu"
  /\ LET menu_pressed == Pressed(buttons, CONTROL_MENU)
         edge == menu_pressed /\ ~old_menu_pressed
         open == IF edge THEN ~menu_open ELSE menu_open
     IN  /\ menu_open' = open
         /\ menu_anim' = IF edge /\ open
                         THEN InterpolatorStart(menu_anim, (4 * FramesPerSecond) \div 10,
                                                0, 1000)
                         ELSE menu_anim
         /\ old_menu_pressed' = menu_pressed
         /\ pc' = NextStep(prog, pc)
  /\ UNCHANGED << prog, render_vars, quad_calls, key_state, player_spawned,
                  file, probe, tile_map, entities, new_entities, buttons,
                  x_scroll, y_scroll, offset, batch, u, frame, panic, next_id,
                  steps, tests, updated, spawn_log, at_start, newcomers,
                  before_prune >>

\* main.rs lines 64-83: the menu button toggles the menu on its rising edge;
\* the passes of lines 84-120 are skipped while the menu is open.
MenuToggle ==
  /\ prog = "main" /\ pc = "menu"
  /\ LET menu_pressed == Pressed(buttons, CONTROL_MENU)
         edge == menu_pressed /\ ~old_menu_pressed
         open == IF edge THEN ~menu_open ELSE menu_open
     IN  /\ menu_open' = open
         /\ menu_anim' = IF edge /\ open
                         THEN InterpolatorStart(menu_anim, (4 * FramesPerSecond) \div 10,
                                                0, 1000)
                         ELSE menu_anim
         /\ old_menu_pressed' = menu_pressed
         /\ pc' = IF open THEN "tile_draw" ELSE NextStep(prog, pc)
  /\ UNCHANGED << prog, render_vars, quad_calls, key_state, player_spawned,
                  file, probe, tile_map, entities, new_entities, buttons,
                  x_scroll, y_scroll, offset, batch, u, frame, panic, next_id,
                  steps, tests, updated, spawn_log, at_start, newcomers,
                  before_prune >>

\* main.rs lines 132-143: the menu panel, drawn over the scene while the
\* menu is open
MenuDraw ==
  /\ prog = "main" /\ pc = "menu_draw"
  /\ IF menu_open
     THEN LET r == InterpolatorUpdate(menu_anim)
          IN  /\ menu_anim' = r.self
              /\ quad_calls' = quad_calls \o
                   draw_nine_tile(50, 20, 40 + (r.value * 250) \div 1000,
                                  40 + (r.value * 350) \div 1000)
     ELSE UNCHANGED << menu_anim, quad_calls >>
  /\ pc' = NextStep(prog, pc)
  /\ UNCHANGED << prog, render_vars, menu_open, old_menu_pressed, key_state,
                  player_spawned, file, probe, tile_map, entities, new_entities,
                  buttons, x_scroll, y_scroll, offset, batch, u, frame, panic,
                  next_id, steps, tests, updated, spawn_log, at_start,
                  newcomers, before_prune >>

Next ==
  \/ CreateEntities
  \/ Poll
  \/ PollMain
  \/ MenuToggle
  \/ MenuDraw
  \/ DoFrameCall
  \/ CameraUpdate
  \/ DrawTileMap
  \/ HandleCollisions
  \/ UpdateEntity
  \/ Integrate
  \/ Prune
  \/ DrawEntities
  \/ Render

Spec == Init /\ [][Next]_vars

\* ------------------------------------------------------ a long session
\* The run loop without a frame limit, for what happens eventually.  The
\* player of the 14 x 8 level stands at the start and taps the fire key, at
\* most MaxShots times, releasing it in the frame after the press; the window
\* is never closed.  To keep the states finite the position of an arrow that
\* is FarAway pixels beyond the map and flying away from it is held (get_flags
\* is 0 at every point outside the map, and an f32 position itself stops
\* changing once the step is below its precision).
MaxShots == 1
FarAway == 64

FlightBursts ==
  { << >>, << Event("KeyDown", "X", FALSE) >>, << Event("KeyUp", "X", FALSE) >> }

\* The arrow is outside the map by FarAway pixels and does not come back:
\* xvec never changes, and yvec only grows.
Gone(a, tm) ==
  LET x == AsI32(a.xpos)
      y == AsI32(a.ypos)
  IN  \/ x >= tm.width * TILE_SIZE + FarAway /\ a.xvec >= 0
      \/ x < -FarAway /\ a.xvec <= 0
      \/ y >= tm.height * TILE_SIZE + FarAway /\ a.yvec >= 0

\* The entity after its update, a gone arrow's position held.
Settle(before, after, tm) ==
  IF after.kind = "Arrow" /\ Gone(before, tm)
  THEN [after EXCEPT !.xpos = before.xpos, !.ypos = before.ypos]
  ELSE after

FlightInit ==
  /\ InitRun(<< >>, TRUE)
  /\ new_entities = << >>
  /\ buttons = {}
  /\ x_scroll = 0
  /\ y_scroll = 0
  /\ offset = [x |-> 0, y |-> 0]
  /\ batch = << >>
  /\ u = 1
  /\ frame = 0
  /\ panic = ""
  /\ steps = << >>
  /\ tests = << >>
  /\ updated = << >>
  /\ spawn_log = << >>
  /\ at_start = entities
  /\ newcomers = {}
  /\ before_prune = << >>
  /\ file = NoFile
  /\ probe = NoProbe
  /\ InitRest

\* run, lines 104-124, with the taps of this session
FlightPoll ==
  /\ prog = "run" /\ pc = "poll"
  /\ \E burst \in FlightBursts :
       /\ burst # << >> /\ burst[1].type = "KeyDown" => next_id <= MaxShots + 1
       /\ Pressed(buttons, CONTROL_FIRE) =>
            burst = << Event("KeyUp", "X", FALSE) >>
       /\ buttons' = PollEvents(burst, buttons).buttons
       /\ key_state' = KeyStateAfter(Polled(burst), key_state)
  /\ pc' = NextStep(prog, pc)
  /\ gl_draws' = NoDraws
  /\ steps' = << >>
  /\ tests' = << >>
  /\ updated' = << >>
  /\ spawn_log' = << >>
  /\ at_start' = entities
  /\ newcomers' = {spawn_log[k].child : k \in DOMAIN spawn_log}
  /\ before_prune' = << >>
  /\ UNCHANGED << prog, vertices, menu_vars, player_spawned, file, probe,
                  tile_map, entities, new_entities, x_scroll, y_scroll,
                  offset, batch, u, panic, next_id, frame >>

\* run lines 158-166: one turn of the update loop
FlightUpdateEntity ==
  /\ prog = "run" /\ pc = "update" /\ u <= Len(entities)
  /\ LET r == update(entities[u], buttons, tile_map, next_id)
     IN  /\ entities' = [entities EXCEPT ![u] = Settle(entities[u], r.self, tile_map)]
         /\ new_entities' = new_entities \o r.spawned
         /\ next_id' = next_id + Len(r.spawned)
         /\ spawn_log' = spawn_log \o
              [k \in 1..Len(r.spawned) |->
                 [parent |-> entities[u].id, child |-> r.spawned[k].id]]
  /\ updated' = Append(updated, [id |-> entities[u].id, live |-> is_live(entities[u]),
                                 buttons |-> buttons])
  /\ u' = u + 1
  /\ IF u = Len(entities)
     THEN pc' = NextStep(prog, pc) /\ steps' = Append(steps, "update")
     ELSE UNCHANGED << pc, steps >>
  /\ UNCHANGED << prog, render_vars, menu_vars, key_state, player_spawned,
                  file, probe, tile_map, buttons, x_scroll, y_scroll, offset,
                  batch, frame, panic, tests, at_start, newcomers, before_prune >>

FlightNext ==
  \/ CreateEntities
  \/ FlightPoll
  \/ CameraUpdate
  \/ DrawTileMap
  \/ HandleCollisions
  \/ FlightUpdateEntity
  \/ Integrate
  \/ Prune
  \/ DrawEntities
  \/ Render

\* The loop never blocks: poll_iter returns when the queue is empty, and
\* every step of the body terminates.
FlightSpec == FlightInit /\ [][FlightNext]_vars /\ WF_vars(FlightNext)

\* ------------------------------------------------ loading and querying
\* A second driver: load_tile_map is given a file; the loaded map is then
\* queried at points inside and outside of it.
AtlasRect(left, top, right, bottom) ==
  [left |-> left, top |-> top, right |-> right, bottom |-> bottom]

Object(name, x, y) == [name |-> name, x |-> x, y |-> y]

\* An object name of n ASCII letters.
NameOfLen(n) == [k \in 1..n |-> 97 + (k % 26)]

\* The maps the asset tool writes.
Info4x1 ==
  TileMapInfo(4, 1, [x |-> 32, y |-> 0], << AtlasRect(0, 0, 64, 64) >>,
              << FLAG_SOLID >>, << 1, 0, 0, 0 >>, << >>)

Info3x2 ==
  TileMapInfo(3, 2, [x |-> -5, y |-> 70],
              << AtlasRect(0, 0, 64, 64), AtlasRect(66, 0, 130, 64),
                 AtlasRect(132, 448, 196, 512) >>,
              << FLAG_SOLID, FLAG_LADDER, FLAG_SOLID \cup FLAG_LADDER >>,
              << 1, 2, 0, 3, 0, 1 >>,
              << Object(NameOfLen(2), 10, -20),
                 Object(NameOfLen(NAME_SIZE - 1), 300, 5) >>)

\* A grid cell names tile type 3 of 2.
InfoBadIndex ==
  TileMapInfo(2, 2, [x |-> 0, y |-> 0],
              << AtlasRect(0, 0, 64, 64), AtlasRect(66, 0, 130, 64) >>,
              << FLAG_SOLID, FLAG_LADDER >>, << 1, 3, 0, 2 >>, << >>)

\* An object's name fills the 32 byte field.
InfoLongName ==
  TileMapInfo(1, 1, [x |-> 0, y |-> 0], << AtlasRect(0, 0, 64, 64) >>,
              << FLAG_SOLID >>, << 1 >>,
              << Object(NameOfLen(1), 1, 2), Object(NameOfLen(NAME_SIZE), 3, 4) >>)

MapInfos == {Info4x1, Info3x2, InfoBadIndex, InfoLongName}

\* The files: what write_tile_map_file wrote, the same cut short at every
\* length, and with a first byte that is not 'T'.
Files ==
  LET bytes(info) == write_tile_map_file(info).bytes
  IN  {[bytes |-> bytes(info), info |-> info, kind |-> "written"] :
         info \in MapInfos}
      \cup {[bytes |-> SubSeq(bytes(Info3x2), 1, n), info |-> Info3x2,
             kind |-> "cut"] : n \in 0..(Len(bytes(Info3x2)) - 1)}
      \cup {[bytes |-> [bytes(info) EXCEPT ![1] = 116], info |-> info,
             kind |-> "magic"] : info \in {Info4x1, Info3x2}}

TileMapInit ==
  /\ prog = "load_tile_map"
  /\ pc = "load"
  /\ file \in Files
  /\ tile_map = DefaultTileMap
  /\ probe = NoProbe
  /\ entities = << >>
  /\ new_entities = << >>
  /\ buttons = {}
  /\ x_scroll = 0
  /\ y_scroll = 0
  /\ offset = [x |-> 0, y |-> 0]
  /\ batch = << >>
  /\ u = 1
  /\ frame = 0
  /\ panic = ""
  /\ next_id = 1
  /\ steps = << >>
  /\ tests = << >>
  /\ updated = << >>
  /\ spawn_log = << >>
  /\ at_start = << >>
  /\ newcomers = {}
  /\ before_prune = << >>
  /\ player_spawned = FALSE
  /\ InitRest

\* GameEngine::load_tile_map, lines 76-83: self.tile_map is assigned only
\* when TileMap::new returns.
LoadTileMap ==
  /\ prog = "load_tile_map" /\ pc = "load"
  /\ LET r == TileMapNew(file.bytes)
     IN  IF r.panic # ""
         THEN Panic(r.panic) /\ UNCHANGED tile_map
         ELSE tile_map' = r.map /\ pc' = "loaded" /\ panic' = panic
  /\ UNCHANGED << prog, render_vars, menu_vars, key_state, file, probe, entities, new_entities, buttons, x_scroll,
                  y_scroll, offset, batch, u, frame, next_id, steps, tests,
                  updated, spawn_log, at_start, newcomers, before_prune,
                  player_spawned >>

\* Coordinates at which a map of n tiles along an axis is queried.
QueryCoords(n) ==
  {-TILE_SIZE, -1, 0, 32, TILE_SIZE - 1, TILE_SIZE, 96, 2 * TILE_SIZE,
   n * TILE_SIZE - 1, n * TILE_SIZE, n * TILE_SIZE + 70}

\* A caller asks is_solid and is_ladder of the loaded map at one point.
Query ==
  /\ prog = "load_tile_map" /\ pc = "loaded"
  /\ \E x \in QueryCoords(tile_map.width), y \in QueryCoords(tile_map.height) :
       LET r == get_flags_call(tile_map, x, y)
       IN  /\ probe' = [op |-> "query", x |-> x, y |-> y,
                        solid |-> is_solid(tile_map, x, y),
                        ladder |-> is_ladder(tile_map, x, y),
                        reads |-> r.reads, panic |-> r.panic]
           /\ IF r.panic THEN Panic("index out of bounds")
              ELSE UNCHANGED << pc, panic >>
  /\ UNCHANGED << prog, render_vars, menu_vars, key_state, file, tile_map, entities, new_entities, buttons,
                  x_scroll, y_scroll, offset, batch, u, frame, next_id, steps,
                  tests, updated, spawn_log, at_start, newcomers, before_prune,
                  player_spawned >>

TileMapNext == LoadTileMap \/ Query

TileMapSpec == TileMapInit /\ [][TileMapNext]_vars

\* ------------------------------------------------------- overlap tests
\* A third driver: the unit test of util.rs, test_overlap, widened to every
\* pair of its rectangles and a few more; both overlap functions are applied
\* to the pair, Rect::overlaps in both directions.
TestRects ==
  { Rect(0, 0, 10, 10), Rect(10, 0, 10, 10), Rect(20, 0, 10, 10),
    Rect(0, 10, 10, 10), Rect(20, 10, 10, 10), Rect(0, 20, 10, 10),
    Rect(10, 20, 10, 10), Rect(20, 20, 10, 10),
    Rect(9, 9, 12, 12), Rect(11, 11, 8, 8),
    Rect(-5, -5, 6, 6), Rect(10, 10, 0, 0), Rect(12, 3, 4, 30) }

OverlapInit ==
  /\ prog = "test_overlap"
  /\ pc = "test"
  /\ file = NoFile
  /\ tile_map = DefaultTileMap
  /\ probe = NoProbe
  /\ entities = << >>
  /\ new_entities = << >>
  /\ buttons = {}
  /\ x_scroll = 0
  /\ y_scroll = 0
  /\ offset = [x |-> 0, y |-> 0]
  /\ batch = << >>
  /\ u = 1
  /\ frame = 0
  /\ panic = ""
  /\ next_id = 1
  /\ steps = << >>
  /\ tests = << >>
  /\ updated = << >>
  /\ spawn_log = << >>
  /\ at_start = << >>
  /\ newcomers = {}
  /\ before_prune = << >>
  /\ player_spawned = FALSE
  /\ InitRest

\* One assertion of the test: r1.overlaps(&r2), r2.overlaps(&r1), and the
\* tuple form that handle_collisions uses on the same two boxes.
TestOverlap ==
  /\ prog = "test_overlap" /\ pc = "test"
  /\ \E a, b \in TestRects :
       probe' = [op |-> "overlaps", a |-> a, b |-> b,
                 rect |-> RectOverlaps(a, b),
                 rect_rev |-> RectOverlaps(b, a),
                 tuple |-> overlaps(a, b)]
  /\ UNCHANGED << prog, pc, panic, render_vars, menu_vars, key_state, file,
                  tile_map, entities, new_entities, buttons, x_scroll, y_scroll,
                  offset, batch, u, frame, next_id, steps, tests, updated,
                  spawn_log, at_start, newcomers, before_prune, player_spawned >>

OverlapNext == TestOverlap

OverlapSpec == OverlapInit /\ [][OverlapNext]_vars

\* ---------------------------------------------------------------- helpers
IsTile(pl) == pl.who = 0

Range(seq) == {seq[k] : k \in DOMAIN seq}

Done(step) == step \in Range(steps)

IsPrefix(a, b) == Len(a) <= Len(b) /\ \A k \in 1..Len(a) : a[k] = b[k]

RunOrder ==
  << "camera", "tile_draw", "collide", "update", "integrate", "prune", "draw",
     "render" >>

DoFrameOrder == << "collide", "update", "integrate", "prune", "draw" >>

PassDone == pc = "update" /\ u = 1

\* collide was invoked on the entity with id a, with the entity with id b
Invoked(a, b) ==
  \E k \in DOMAIN tests :
    \/ tests[k].a = a /\ tests[k].b = b /\ tests[k].c1
    \/ tests[k].a = b /\ tests[k].b = a /\ tests[k].c2

\* the pass found the boxes of a and b overlapping
FoundOverlapping(a, b) ==
  \E k \in DOMAIN tests : {tests[k].a, tests[k].b} = {a, b} /\ tests[k].hit

C3_EachPairOnce ==
  PassDone =>
    LET n == Len(at_start)
    IN  /\ Len(tests) * 2 = n * (n - 1)
        /\ \A k \in DOMAIN tests :
             /\ tests[k].i < tests[k].j
             /\ tests[k].a = at_start[tests[k].i].id
             /\ tests[k].b = at_start[tests[k].j].id
             /\ tests[k].a # tests[k].b
        /\ \A i, j \in 1..n :
             i < j => Cardinality({k \in DOMAIN tests :
                                     tests[k].i = i /\ tests[k].j = j}) = 1

\* C3 witness: a pass over three entities, among them an arrow and the
\* player that overlap and each had collide invoked.
C3_Witness ==
  /\ PassDone /\ Len(at_start) = 3
  /\ \E k \in DOMAIN tests :
       /\ tests[k].c1 /\ tests[k].c2
       /\ {at_start[tests[k].i].kind, at_start[tests[k].j].kind} = {"Arrow", "Player"}

\* ------------------------------------------------------------------- C4
\* C4 (as claimed): the collision pass on an empty vector completes normally,
\* without arithmetic underflow of the loop bound or invalid indexing.
C4_EmptyPassCompletes ==
  ~(/\ pc = "panic"
    /\ Len(entities) = 0
    /\ panic \in {"attempt to subtract with overflow", "mid > len"})

\* ------------------------------------------------------------------- C5
IdSet(es) == Range(Ids(es))

Tested(id) == \E k \in DOMAIN tests : tests[k].a = id \/ tests[k].b = id

\* C5: an entity pushed by an update took part in no test and no collide call
\* of that frame's collision pass; if it is the frame's only push, and the
\* entity that pushed it is the only one not live at pruning, the vector has
\* the same length after the frame, the pushing entity gone and the new one
\* last; the new entity is in the vector the next frame's pass is given and,
\* when that vector has two entities or more, in its tests.
C5_SpawnAndDie ==
  /\ \A k \in DOMAIN spawn_log : ~Tested(spawn_log[k].child)
  /\ Done("prune") =>
       \A k \in DOMAIN spawn_log :
         (/\ Len(spawn_log) = 1
          /\ IdSet(at_start) \ IdSet(entities) = {spawn_log[k].parent})
           => /\ Len(entities) = Len(at_start)
              /\ entities[Len(entities)].id = spawn_log[k].child
  /\ PassDone =>
       \A c \in newcomers :
         /\ c \in IdSet(at_start)
         /\ Len(at_start) >= 2 => Tested(c)

\* C5 witness: a frame has been pruned in which one entity pushed a new one
\* and was itself the only entity removed, among three entities.
C5_Witness ==
  /\ Done("prune") /\ Len(spawn_log) = 1 /\ Len(at_start) = 3
  /\ IdSet(at_start) \ IdSet(entities) = {spawn_log[1].parent}
  /\ Len(entities) = 3

\* ------------------------------------------------------------------- C6
UpdatedIds == [k \in DOMAIN updated |-> updated[k].id]

\* C6 (as claimed): update is invoked on no entity whose is_live() is false
\* when its turn comes.
C6_OnlyLiveUpdated == \A k \in DOMAIN updated : updated[k].live

\* C6 (amended): in the update pass update is invoked exactly once, in
\* collection order, on every entity of the collection, live or not (an arrow
\* or balloon marked dead by the collision pass of the same frame included);
\* entities pushed during the pass are not updated in that frame.
C6_EveryEntityUpdatedOnce ==
  /\ IsPrefix(UpdatedIds, Ids(at_start))
  /\ Done("update") => UpdatedIds = Ids(at_start)
  /\ \A k \in DOMAIN spawn_log :
       \A n \in DOMAIN updated : updated[n].id # spawn_log[k].child

\* C6 witness: an update pass over three entities is complete and one of its
\* calls was made on an entity that was not live.
C6_Witness ==
  /\ Done("update") /\ Len(updated) = 3
  /\ \E k \in DOMAIN updated : ~updated[k].live

\* ------------------------------------------------------------------- C7
SpawnedIds == [k \in DOMAIN spawn_log |-> spawn_log[k].child]

\* C7: within a frame the vector keeps its members and their order until
\* integration; what update pushes waits in the spawn list, in push order;
\* integration appends all of it at the end and empties the spawn list, which
\* is also empty at the start of every frame.
C7_MembershipSteps ==
  pc # "panic" =>
    /\ (~Done("integrate")) =>
         /\ Ids(entities) = Ids(at_start)
         /\ Ids(new_entities) = SpawnedIds
    /\ (Done("integrate") /\ ~Done("prune")) =>
         Ids(entities) = Ids(at_start) \o SpawnedIds
    /\ Done("integrate") => new_entities = << >>
    /\ pc \in {"poll", "call", "camera", "tile_draw", "collide"} =>
         new_entities = << >>

\* C7 witness: integration has just appended a pushed entity to a vector of
\* three.
C7_Witness ==
  /\ pc = "prune" /\ Len(at_start) = 3 /\ Len(entities) = 4
  /\ new_entities = << >>

\* ------------------------------------------------------------------- C8
Place(es, id) == CHOOSE k \in DOMAIN es : es[k].id = id

\* C8: pruning keeps exactly the entities whose is_live() is true, removes
\* exactly the others, and keeps the kept ones in their relative order.
C8_StableFilter ==
  Done("prune") =>
    /\ \A k \in DOMAIN before_prune :
         is_live(before_prune[k]) <=> before_prune[k] \in Range(entities)
    /\ \A k \in DOMAIN entities : entities[k] \in Range(before_prune)
    /\ Len(entities) = Cardinality({k \in DOMAIN before_prune : is_live(before_prune[k])})
    /\ \A a, b \in DOMAIN entities :
         a < b => Place(before_prune, entities[a].id) < Place(before_prune, entities[b].id)

\* C8 witness: pruning removed an entity that stood before two that it kept.
C8_Witness ==
  /\ pc = "draw"
  /\ \E k \in DOMAIN before_prune :
       /\ ~is_live(before_prune[k])
       /\ k + 2 <= Len(before_prune)
       /\ is_live(before_prune[k + 1]) /\ is_live(before_prune[k + 2])

\* ------------------------------------------------------------------- C9
\* C9: pruning the pruned vector again, with no collision pass or update in
\* between, gives the same vector: same entities, same order.
C9_PruneIdempotent ==
  (Done("prune") /\ pc \in {"draw", "render", "poll", "call"}) =>
    Retain(entities) = entities

\* C9 witness: pruning has just removed two neighbours from the vector.
C9_Witness ==
  /\ pc = "draw"
  /\ \E k \in DOMAIN before_prune :
       /\ k + 1 <= Len(before_prune)
       /\ ~is_live(before_prune[k]) /\ ~is_live(before_prune[k + 1])

\* ------------------------------------------------------------------ C10
\* The ids of the entity placements in the batch, in batch order.
DrawnIds ==
  LET pls == SelectSeq(batch, LAMBDA pl : ~IsTile(pl))
  IN  [k \in DOMAIN pls |-> pls[k].who]

\* C10: the draw pass draws the entities in collection order, and collection
\* order is spawn order: ids ascend along the vector at all times, so two
\* entities keep their relative order as long as both are in it; an entity
\* pushed in this frame is drawn in this frame, after every entity that was
\* in the vector before.
C10_DrawOrder ==
  /\ \A a, b \in DOMAIN entities : a < b => entities[a].id < entities[b].id
  /\ Done("draw") /\ ~Done("render") =>
       /\ Range(DrawnIds) = IdSet(entities)
       /\ \A p, q \in DOMAIN DrawnIds :
            p < q => Place(entities, DrawnIds[p]) <= Place(entities, DrawnIds[q])
       /\ \A p, q \in DOMAIN DrawnIds :
            (DrawnIds[p] \in Range(SpawnedIds) /\ DrawnIds[q] \in IdSet(at_start))
              => q < p

\* C10 witness: a draw pass has drawn an entity pushed in this frame after
\* two entities that were in the vector before.
C10_Witness ==
  /\ Done("draw") /\ ~Done("render") /\ Len(entities) = 3
  /\ entities[3].id \in Range(SpawnedIds)
  /\ entities[1].id \in IdSet(at_start) /\ entities[2].id \in IdSet(at_start)
  /\ DrawnIds[Len(DrawnIds)] = entities[3].id

\* ------------------------------------------------------------------ C11
\* C11 (as claimed): in every frame, after the camera update,
\* 0 <= x_scroll <= max_x_scroll and 0 <= y_scroll <= max_y_scroll, wherever
\* the tracked box is and whatever the size of the loaded map.
C11_ScrollInRange ==
  (prog = "run" /\ Done("camera")) =>
    /\ 0 <= x_scroll /\ x_scroll <= max_x_scroll(tile_map)
    /\ 0 <= y_scroll /\ y_scroll <= max_y_scroll(tile_map)

\* ------------------------------------------------------------------ C12
InBounds(tm, x, y) ==
  0 <= x /\ x < tm.width * TILE_SIZE /\ 0 <= y /\ y < tm.height * TILE_SIZE

\* The tile number of the grid cell a point inside the map lies in.
CellOf(tm, x, y) == tm.tiles[(y \div TILE_SIZE) * tm.width + (x \div TILE_SIZE) + 1]

\* C12: at a point inside the map, is_solid is bit 0 and is_ladder bit 1 of
\* tile_flags[N - 1], N being the tile number of the point's cell, and both
\* are false when N = 0; in the 4 x 1 map whose only solid cell is (0, 0),
\* is_solid(32, 32) is true and is_solid(96, 32) is false.
C12_FlagsOfCell ==
  (probe.op = "query" /\ InBounds(tile_map, probe.x, probe.y)) =>
    LET N == CellOf(tile_map, probe.x, probe.y)
    IN  /\ N = 0 => (~probe.solid /\ ~probe.ladder /\ ~probe.panic)
        /\ (N >= 1 /\ N <= Len(tile_map.tile_flags)) =>
             /\ probe.solid <=> 0 \in tile_map.tile_flags[N]
             /\ probe.ladder <=> 1 \in tile_map.tile_flags[N]
             /\ ~probe.panic
        /\ (file.info = Info4x1 /\ probe.x = 32 /\ probe.y = 32) => probe.solid
        /\ (file.info = Info4x1 /\ probe.x = 96 /\ probe.y = 32) => ~probe.solid

\* C12 witness: a query inside the 3 x 2 map hit a cell of tile type 2,
\* a ladder that is not solid.
C12_Witness ==
  /\ probe.op = "query" /\ file.info = Info3x2
  /\ InBounds(tile_map, probe.x, probe.y)
  /\ CellOf(tile_map, probe.x, probe.y) = 2
  /\ probe.ladder /\ ~probe.solid

\* ------------------------------------------------------------------ C13
\* C13: at a point outside the map, on any of its four sides, is_solid and
\* is_ladder are both false and the call reads no place of the tile vector.
C13_OutsideNotSolid ==
  (probe.op = "query" /\ ~InBounds(tile_map, probe.x, probe.y)) =>
    /\ ~probe.solid /\ ~probe.ladder
    /\ probe.reads = << >> /\ ~probe.panic

\* C13 witness: a query below the bottom edge of the 3 x 2 map, in a column
\* whose bottom cell is solid, was answered.
C13_Witness ==
  /\ probe.op = "query" /\ file.info = Info3x2
  /\ probe.x = 2 * TILE_SIZE /\ probe.y = tile_map.height * TILE_SIZE
  /\ ~probe.solid

\* ------------------------------------------------------------------ C14
\* C14 (as claimed): a file whose grid holds a tile number greater than the
\* number of tile types is rejected by TileMap::new; so every non-zero cell
\* of a loaded map has its tile_flags and atlas_coords entries, and no later
\* query indexes them out of range.
C14_BadIndexRejected ==
  prog = "load_tile_map" =>
    /\ pc = "loaded" =>
         \A k \in DOMAIN tile_map.tiles :
           /\ tile_map.tiles[k] <= Len(tile_map.tile_flags)
           /\ tile_map.tiles[k] <= Len(tile_map.atlas_coords)
    /\ panic # "index out of bounds"

\* ------------------------------------------------------------------ C15
\* C15: when the first four bytes of the file are not "TMAP", or the file
\* ends before everything it declares has been read, TileMap::new panics
\* and the engine's tile map stays what it was; nothing is loaded in part
\* and nothing is queried.
C15_MalformedIsFatal ==
  (prog = "load_tile_map" /\ pc # "load" /\ file.kind \in {"cut", "magic"}) =>
    /\ pc = "panic"
    /\ panic = (IF Len(file.bytes) >= 4 /\ SubSeq(file.bytes, 1, 4) # MAGIC
                THEN "Invalid tilemap file" ELSE EOF_MSG)
    /\ tile_map = DefaultTileMap
    /\ probe = NoProbe

\* C15 witness: the load of a file that ends inside its second object
\* record has panicked.
C15_Witness ==
  /\ prog = "load_tile_map" /\ pc = "panic" /\ file.kind = "cut"
  /\ Len(file.bytes) = Len(write_tile_map_file(Info3x2).bytes) - 6
  /\ tile_map = DefaultTileMap

\* ------------------------------------------------------------------ C16
\* The loaded map holds what the TileMapInfo held.
SameMap(tm, info) ==
  /\ tm.width = info.width /\ tm.height = info.height
  /\ tm.player_start_x = info.player_start_x
  /\ tm.player_start_y = info.player_start_y
  /\ tm.tiles = info.tile_data
  /\ tm.tile_flags = info.tile_flags
  /\ Len(tm.atlas_coords) = Len(info.rects)
  /\ \A k \in DOMAIN info.rects :
       /\ tm.atlas_coords[k][1].k512 = info.rects[k].left
       /\ tm.atlas_coords[k][2].k512 = info.rects[k].top
       /\ tm.atlas_coords[k][3].k512 = info.rects[k].right
       /\ tm.atlas_coords[k][4].k512 = info.rects[k].bottom
  /\ tm.objects = info.objects

\* C16 (as claimed): for every map whose object names are at most 32 bytes,
\* loading what write_tile_map_file wrote succeeds and gives the same width,
\* height, player start, grid, flags, atlas rectangles and object list.
C16_RoundTrip ==
  (prog = "load_tile_map" /\ pc # "load" /\ file.kind = "written") =>
    /\ panic \in {"", "index out of bounds"}
    /\ SameMap(tile_map, file.info)

\* ------------------------------------------------------------------ C17
\* C17: when create_entities returns, the vector holds what it held before
\* (the player, if spawn_player was called) followed by one entity per object
\* marker of the map, in marker order, each the one the constructor
\* registered under the marker's name builds at the marker's (x, y); when a
\* marker's name has no constructor, run panics in create_entities and no
\* frame is started.
C17_CreateEntities ==
  prog = "run" =>
    LET objects == tile_map.objects
        before == IF player_spawned THEN 1 ELSE 0
    IN  /\ (pc = "poll" /\ frame = 0) =>
             /\ Len(entities) = before + Len(objects)
             /\ player_spawned => entities[1] = spawn_player(tile_map, 1)
             /\ \A k \in DOMAIN objects :
                  entities[before + k] =
                    create_fn(objects[k].name, objects[k].x, objects[k].y, before + k)
        /\ (\E k \in DOMAIN objects : objects[k].name \notin Registered) =>
             /\ pc \in {"create_entities", "panic"}
             /\ frame = 0 /\ steps = << >> /\ batch = << >>
             /\ pc = "panic" => panic = "called Option::unwrap() on a None value"

\* C17 witness: create_entities has returned with a balloon and an arrow
\* behind the player, as the two markers of the map name them.
C17_Witness ==
  /\ prog = "run" /\ pc = "poll" /\ frame = 0
  /\ Len(tile_map.objects) = 2 /\ Len(entities) = 3
  /\ tile_map.objects[1].name = "balloon" /\ entities[2].kind = "Balloon"
  /\ tile_map.objects[2].name = "arrow" /\ entities[3].kind = "Arrow"

\* ------------------------------------------------------------------ C18
\* C18: when spawn_player was called before run, the vector is never empty
\* and its first entity is always the player spawn_player created, made at
\* the map's start coordinate: creation of the map's entities, integration
\* and pruning leave it first, and the camera's read of entities[0] does not
\* fail.
C18_PlayerStaysFirst ==
  (prog = "run" /\ player_spawned) =>
    /\ Len(entities) >= 1
    /\ entities[1].kind = "Player" /\ entities[1].id = 1
    /\ (frame = 0 /\ pc # "panic") => entities[1] = spawn_player(tile_map, 1)
    /\ panic # "index out of bounds: the len is 0 but the index is 0"

\* C18 witness: in the second frame pruning has removed an entity and the
\* player, killed by now, is still first.
C18_Witness ==
  /\ prog = "run" /\ player_spawned /\ pc = "draw" /\ frame = 2
  /\ entities[1].kind = "Player" /\ entities[1].killed
  /\ Len(before_prune) > Len(entities)

\* ------------------------------------------------------------------ C19
IsKilledPlayer(e) == e.kind = "Player" /\ e.killed

\* The corpse silhouette: 64 x 14 pixels, 40 below the player's position.
CorpseBox(p) == Rect(AsI32(p.xpos) - 32, AsI32(p.ypos) + 40, 64, 14)

\* An arrow the frame began with, whose tip box overlaps the corpse box of a
\* player that was killed before the frame began.
HitsCorpse(arrow, p) ==
  /\ arrow.kind = "Arrow" /\ IsKilledPlayer(p)
  /\ RectOverlaps(get_bounding_box(arrow), CorpseBox(p))

\* C19: a killed player has the corpse box and has had the death effect
\* played exactly once; in a collision pass that starts with the player
\* killed, every arrow whose box overlaps the corpse box has collide invoked
\* on it and is gone from the vector after that frame's pruning; and no step
\* changes a killed player in any way or takes it out of the vector: killed
\* stays true, update leaves every field as it is, the effect is not played
\* again.
C19_CorpseStillHit ==
  /\ [](\A k \in DOMAIN entities :
          LET p == entities[k]
          IN  p.kind = "Player" =>
                /\ p.death_effects = (IF p.killed THEN 1 ELSE 0)
                /\ p.killed => get_bounding_box(p) = CorpseBox(p))
  /\ [](\A i, j \in DOMAIN at_start :
          HitsCorpse(at_start[j], at_start[i]) =>
            /\ Done("collide") => Invoked(at_start[j].id, at_start[i].id)
            /\ Done("prune") => at_start[j].id \notin IdSet(entities))
  /\ [][\A k \in DOMAIN entities :
          IsKilledPlayer(entities[k]) =>
            \E j \in DOMAIN entities' : entities'[j] = entities[k]]_vars

\* C19 witness: a frame that began with the player killed has been pruned,
\* and an arrow that overlapped the corpse box at its start is gone.
C19_Witness ==
  /\ Done("prune")
  /\ \E i, j \in DOMAIN at_start :
       /\ HitsCorpse(at_start[j], at_start[i])
       /\ at_start[j].id \notin IdSet(entities)
       /\ \E k \in DOMAIN entities : entities[k] = at_start[i]

\* ------------------------------------------------------------------ C20
\* The rectangle the camera hands to TileMap::draw.
VisibleRect == Rect(x_scroll, y_scroll, WINDOW_WIDTH, WINDOW_HEIGHT)

\* The non-empty cells of the grid whose tile rectangle intersects vr, as
\* places of the tile vector, in ascending (row-major) order.
RECURSIVE Ascending(_)
Ascending(set) ==
  IF set = {} THEN << >>
  ELSE LET least == CHOOSE a \in set : \A b \in set : a <= b
       IN  << least >> \o Ascending(set \ {least})

VisibleCells(tm, vr) ==
  Ascending({k \in DOMAIN tm.tiles :
               /\ tm.tiles[k] # 0
               /\ RectOverlaps(Rect(((k - 1) % tm.width) * TILE_SIZE,
                                    ((k - 1) \div tm.width) * TILE_SIZE,
                                    TILE_SIZE, TILE_SIZE), vr)})

\* C20 (as claimed): for every visible_rect the camera produces,
\* TileMap::draw submits one placement for each non-empty cell that
\* intersects it, in row-major order, and nothing else, and reads no cell
\* outside the grid (so no read of the tile vector is out of range).
C20_VisibleTilesDrawn ==
  prog = "run" =>
    /\ pc = "collide" =>
         LET cells == VisibleCells(tile_map, VisibleRect)
         IN  /\ Len(batch) = Len(cells)
             /\ \A n \in DOMAIN cells :
                  /\ IsTile(batch[n])
                  /\ batch[n].x + offset.x = ((cells[n] - 1) % tile_map.width) * TILE_SIZE
                  /\ batch[n].y + offset.y = ((cells[n] - 1) \div tile_map.width) * TILE_SIZE
                  /\ batch[n].sprite = tile_map.atlas_coords[tile_map.tiles[cells[n]]]
    /\ ~(panic = "index out of bounds" /\ Done("camera") /\ ~Done("tile_draw"))

\* ------------------------------------------------------------------ C21
\* The floats of the k-th group of 24 in self.vertices.
Group(k) == SubSeq(vertices, 24 * (k - 1) + 1, 24 * k)

\* The position (x, y) and the atlas coordinate (u, v) of vertex n (1..6)
\* of a group.
VertexOf(g, n) ==
  [x |-> g[4 * (n - 1) + 1], y |-> g[4 * (n - 1) + 2],
   u |-> g[4 * (n - 1) + 3], v |-> g[4 * (n - 1) + 4]]

\* The six vertices g are the two triangles (top-left, top-right,
\* bottom-left) and (top-right, bottom-right, bottom-left) of placement pl:
\* the atlas corners of its sprite, left and right exchanged when flipped;
\* the corners of a parallelogram, which for an unrotated placement is the
\* sprite's rectangle at the placement's position in device coordinates.
IsQuadOf(g, pl) ==
  LET info == image_info(pl.sprite)
      ul == IF pl.flip_h THEN info.atlas_right ELSE info.atlas_left
      ur == IF pl.flip_h THEN info.atlas_left ELSE info.atlas_right
      v(n) == VertexOf(g, n)
      ndc_x(px) == 2000 * px - 1000 * WINDOW_WIDTH
      ndc_y(py) == 1000 * WINDOW_HEIGHT - 2000 * py
  IN  /\ Len(g) = 24
      /\ << v(1).u, v(1).v >> = << ul, info.atlas_top >>
      /\ << v(2).u, v(2).v >> = << ur, info.atlas_top >>
      /\ << v(3).u, v(3).v >> = << ul, info.atlas_bottom >>
      /\ << v(5).u, v(5).v >> = << ur, info.atlas_bottom >>
      /\ v(4) = v(2)
      /\ v(6) = v(3)
      /\ v(1).x + v(5).x = v(2).x + v(3).x
      /\ v(1).y + v(5).y = v(2).y + v(3).y
      /\ ~pl.rotated =>
           /\ v(1).x = ndc_x(pl.x - info.originx)
           /\ v(1).y = ndc_y(pl.y - info.originy)
           /\ v(5).x = ndc_x(pl.x - info.originx + info.width)
           /\ v(5).y = ndc_y(pl.y - info.originy + info.height)
           /\ v(2).y = v(1).y /\ v(3).x = v(1).x

\* C21: at every point the vertex batch holds 24 floats (6 vertices) for
\* each placement made since the last flush, group k being the two triangles
\* of the k-th placement, rotated, unrotated or flipped; a flush issues one
\* draw call, over all the vertices the batch held, and leaves the batch
\* empty, so a frame of run starts with no vertex of an earlier frame.
C21_SixVerticesPerPlacement ==
  /\ Len(vertices) = 6 * ATTR_ELEMS_PER_VERTEX * Len(batch)
  /\ \A k \in DOMAIN batch : IsQuadOf(Group(k), batch[k])
  /\ gl_draws.calls = (IF Done("render") THEN 1 ELSE 0)
  /\ Done("render") =>
       /\ vertices = << >>
       /\ gl_draws.floats = 24 * gl_draws.placed
       /\ gl_draws.count = 6 * gl_draws.placed
  /\ (prog \in {"run", "main"} /\ pc \in {"poll", "camera"}) => vertices = << >>

\* C21 witness: after the flush of the first frame, a later frame is about
\* to flush a batch that holds an unrotated tile, a flipped placement and a
\* placement both rotated and flipped.
C21_Witness ==
  /\ pc = "render" /\ frame > 1
  /\ \E k \in DOMAIN batch : IsTile(batch[k])
  /\ \E k \in DOMAIN batch : batch[k].flip_h /\ ~batch[k].rotated
  /\ \E k \in DOMAIN batch :
       batch[k].rotated /\ batch[k].flip_h /\ batch[k].srot # 0

\* ------------------------------------------------------------------ C22
\* The control of each key that has one: Up 0x1, Down 0x2, Left 0x4,
\* Right 0x8, X (fire) 0x10, Z (jump) 0x20, as bit positions.
ControlOfKey ==
  [k \in {"Up", "Down", "Left", "Right", "X", "Z"} |->
     CASE k = "Up" -> 0 [] k = "Down" -> 1 [] k = "Left" -> 2
       [] k = "Right" -> 3 [] k = "X" -> 4 [] k = "Z" -> 5]

\* C22: in run, after the events polled so far, the bit of a control is set
\* exactly when the last event of its key, repeats not counted, was a
\* KeyDown; no other bit is ever set, so a key without a control changes
\* nothing; every update call of a frame is given the mask as it is after
\* that frame's poll; and the mask changes in no step but the poll.
C22_ButtonsFollowKeys ==
  /\ [](prog = "run" =>
          /\ \A k \in DOMAIN ControlOfKey :
               (ControlOfKey[k] \in buttons) <=> (key_state[k] = "KeyDown")
          /\ buttons \subseteq {ControlOfKey[k] : k \in DOMAIN ControlOfKey}
          /\ \A n \in DOMAIN updated : updated[n].buttons = buttons)
  /\ [][(prog = "run" /\ buttons' # buttons) => pc = "poll"]_vars

\* C22 witness: the second update call of the third frame is about to be
\* made; X has been pressed and released and a repeated KeyDown of X polled
\* (it comes with the KeyDown of Left), Up and Left are down, and the
\* unmapped key Q has been pressed: only the up and left bits are set.
C22_Witness ==
  /\ prog = "run" /\ pc = "update" /\ Len(updated) = 1 /\ frame = 3
  /\ key_state["X"] = "KeyUp" /\ key_state["Q"] = "KeyDown"
  /\ key_state["Up"] = "KeyDown" /\ key_state["Left"] = "KeyDown"
  /\ buttons = {0, 2}

\* ------------------------------------------------------------------ C23
\* The two rectangles have a common edge or corner line: one ends where the
\* other begins, along x or along y.
SharesBorder(a, b) ==
  \/ a.left + a.width = b.left \/ b.left + b.width = a.left
  \/ a.top + a.height = b.top \/ b.top + b.height = a.top

\* C23: Rect::overlaps(a, b) is a.left < b.right && b.left < a.right &&
\* a.top < b.bottom && b.top < a.bottom with right = left + width and
\* bottom = top + height; it gives the same answer with a and b exchanged;
\* rectangles that end where the other begins do not overlap; and the tuple
\* form of handle_collisions answers the same for the same two boxes.
C23_OverlapIsStrictAABB ==
  probe.op = "overlaps" =>
    LET a == probe.a
        b == probe.b
    IN  /\ probe.rect <=> /\ a.left < b.left + b.width
                          /\ b.left < a.left + a.width
                          /\ a.top < b.top + b.height
                          /\ b.top < a.top + a.height
        /\ probe.rect_rev = probe.rect
        /\ (SharesBorder(a, b) /\ a.width > 0 /\ b.width > 0
            /\ a.height > 0 /\ b.height > 0) => ~probe.rect
        /\ probe.tuple = probe.rect

\* C23 witness: the test's r1 and r2, which share the edge x = 10, have been
\* compared and do not overlap; its r1 and middle_large (one pixel into each
\* other) are covered by C23_OverlapIsStrictAABB in another state.
C23_Witness ==
  /\ probe.op = "overlaps"
  /\ probe.a = Rect(0, 0, 10, 10) /\ probe.b = Rect(10, 0, 10, 10)
  /\ ~probe.rect /\ ~probe.tuple

\* ------------------------------------------------------------------ C24
\* C24: in a collision pass the overlap answer of every pair is the answer
\* for the boxes the two entities have when the pair is reached, so a box
\* changed by a collide earlier in the pass counts in the later tests of that
\* entity.  The code reads the second entity's box for every pair (entity.rs
\* line 99) but the first entity's box once per row (line 97), so this is
\* violated.
C24_DecidedOnCurrentBoxes ==
  \A n \in DOMAIN tests : tests[n].hit = overlaps(tests[n].now1, tests[n].now2)

\* ------------------------------------------------------------------ C25
\* The claim's rule for one axis: viewport is the window's extent along it.
DeadZone(scroll, near, far, viewport, max_scroll) ==
  IF far > scroll + (viewport * 2) \div 3
  THEN Min(far - (viewport * 2) \div 3, max_scroll)
  ELSE IF near < scroll + viewport \div 3
       THEN Max(0, near - viewport \div 3)
       ELSE scroll

\* The box [near, far] lies between the two boundaries of the scroll.
InDeadZone(scroll, near, far, viewport) ==
  near >= scroll + viewport \div 3 /\ far <= scroll + (viewport * 2) \div 3

\* The branch the rule takes for this axis gives the value before min / max,
\* or leaves the scroll alone.
NotClamped(scroll, near, far, viewport, max_scroll) ==
  IF far > scroll + (viewport * 2) \div 3
  THEN far - (viewport * 2) \div 3 <= max_scroll
  ELSE near < scroll + viewport \div 3 => near - viewport \div 3 >= 0

\* One axis of a camera step obeys the rule and its two consequences.
AxisObeys(scroll, after, near, far, viewport, max_scroll) ==
  /\ after = DeadZone(scroll, near, far, viewport, max_scroll)
  /\ InDeadZone(scroll, near, far, viewport) => after = scroll
  /\ NotClamped(scroll, near, far, viewport, max_scroll)
       => InDeadZone(after, near, far, viewport)

\* C25: every camera step sets each axis' scroll, from the box of the
\* tracked entity (entities[0]) alone, to min(far - 2/3 viewport, max_scroll)
\* if the far edge is beyond scroll + 2/3 viewport, else to
\* max(0, near - 1/3 viewport) if the near edge is before scroll + 1/3
\* viewport, else leaves it; a box between the boundaries leaves the scroll
\* unchanged, and an unclamped result has the box between the boundaries.
\* In run the camera step is the first of every frame, before the update and
\* draw passes.
C25_CameraDeadZone ==
  /\ [][(pc = "camera" /\ pc' \notin {"camera", "panic"}) =>
          LET box == get_bounding_box(entities[1])
          IN  /\ AxisObeys(x_scroll, x_scroll', box.left, Right(box),
                           WINDOW_WIDTH, max_x_scroll(tile_map))
              /\ AxisObeys(y_scroll, y_scroll', box.top, Bottom(box),
                           WINDOW_HEIGHT, max_y_scroll(tile_map))]_vars
  /\ [][(x_scroll' # x_scroll \/ y_scroll' # y_scroll) => pc = "camera"]_vars
  /\ []((prog = "run" /\ steps # << >>) => steps[1] = "camera")

\* C25 witness: the camera step of the second frame has just pulled x back
\* to an unclamped near-edge value (the tracked box's left edge is on the
\* 1/3 boundary) and has left y alone at an unclamped value.
C25_Witness ==
  /\ prog = "run" /\ pc = "tile_draw" /\ frame = 2 /\ Len(entities) > 0
  /\ LET box == get_bounding_box(entities[1])
     IN  /\ x_scroll = box.left - LEFT_SCROLL_BOUNDARY
         /\ x_scroll > 0
         /\ y_scroll > 0 /\ y_scroll < max_y_scroll(tile_map)
         /\ box.top > y_scroll + TOP_SCROLL_BOUNDARY
         /\ Bottom(box) < y_scroll + BOTTOM_SCROLL_BOUNDARY

\* ------------------------------------------------------------------ C26
\* C26: the update call of a player appends one arrow, at the position the
\* player has when the call starts, if the player is not killed, not climbing
\* and not starting to climb, the fire button is not pressed and the bow is
\* drawn; in every other case it appends nothing (fire held, killed, climbing,
\* bow put away by starting to climb).  A climbing player's bow is not drawn.
C26_ArrowOnRelease ==
  /\ [][(pc = "update" /\ u' = u + 1 /\ u <= Len(entities)
         /\ entities[u].kind = "Player") =>
          LET p == entities[u]
              release == /\ ~p.killed /\ ~p.climbing /\ ~entities'[u].climbing
                         /\ ~Pressed(buttons, CONTROL_FIRE)
                         /\ p.bow_drawn
              n == Len(new_entities)
          IN  /\ SubSeq(new_entities', 1, n) = new_entities
              /\ Len(new_entities') = IF release THEN n + 1 ELSE n
              /\ release => /\ new_entities'[n + 1].kind = "Arrow"
                            /\ new_entities'[n + 1].xpos = p.xpos
                            /\ new_entities'[n + 1].ypos = p.ypos
                            /\ ~entities'[u].bow_drawn]_vars
  /\ [](\A k \in DOMAIN entities :
          (entities[k].kind = "Player" /\ entities[k].climbing)
            => ~entities[k].bow_drawn)

\* C26 witness: the update pass in which the player released the bow is over:
\* the spawn list holds the one arrow, the fire button is up, and the arrow
\* came from the player.
C26_Witness ==
  /\ pc = "integrate" /\ Len(new_entities) = 1
  /\ new_entities[1].kind = "Arrow"
  /\ ~Pressed(buttons, CONTROL_FIRE)
  /\ \E k \in DOMAIN entities :
       /\ entities[k].kind = "Player" /\ ~entities[k].bow_drawn
       /\ ~entities[k].killed /\ ~entities[k].climbing
       /\ spawn_log[Len(spawn_log)] =
            [parent |-> entities[k].id, child |-> new_entities[1].id]

\* ------------------------------------------------------------------ C27
\* The entity with this id is in the collection.
InCollection(id) == \E k \in DOMAIN entities : entities[k].id = id

\* C27: every arrow that is in the collection is eventually no longer in
\* it, also one that flies out of the map.  The code removes an arrow only
\* when it is on a solid tile or collides; outside the map no tile is solid,
\* so an arrow that leaves the map stays in the collection for ever.
C27_ArrowsEventuallyRemoved ==
  \A id \in 2..(MaxShots + 1) : InCollection(id) ~> ~InCollection(id)

\* ------------------------------------------------------------------ C28
\* C28: when the draw pass starts every entity of the collection is live,
\* and every draw_image call an entity has made in this frame is that of a
\* live entity of the collection, in run, in do_frame and in main, paused or
\* not; an entity that is dead stays dead, and one that has been removed
\* does not come back, so it is drawn in no later frame either.
C28_OnlyLiveEntitiesDrawn ==
  /\ [](pc = "draw" => \A k \in DOMAIN entities : is_live(entities[k]))
  /\ [](Done("draw") =>
          \A k \in DOMAIN batch :
            batch[k].who # 0 =>
              \E j \in DOMAIN entities :
                entities[j].id = batch[k].who /\ is_live(entities[j]))
  /\ [][/\ \A k \in DOMAIN entities, j \in DOMAIN entities' :
             (~is_live(entities[k]) /\ entities'[j].id = entities[k].id)
               => ~is_live(entities'[j])
        /\ \A j \in DOMAIN entities' :
             \/ entities'[j].id \in Range(Ids(entities)) \cup Range(Ids(new_entities))
             \/ entities'[j].id >= next_id]_vars

\* C28 witness: the draw pass of a frame that the menu pauses has run, after
\* an earlier frame in which an entity died and was removed; the entities
\* that are left have been drawn.
C28_Witness ==
  /\ prog = "main" /\ menu_open /\ pc = "menu_draw" /\ Done("draw")
  /\ ~Done("prune")
  /\ Len(entities) < next_id - 1
  /\ \E k \in DOMAIN batch : batch[k].who # 0

\* ------------------------------------------------------------------ C29
\* The vector the frame's collision pass ran over, as it is (or was) before
\* pruning.
Collided == IF Done("prune") THEN before_prune ELSE entities

\* The kind of the entity with this id in the frame's collision pass.
KindOf(id) ==
  Collided[CHOOSE k \in DOMAIN Collided : Collided[k].id = id].kind

\* The test's pair is one entity of each of the two kinds.
PairOf(t, kind1, kind2) ==
  \/ KindOf(t.a) = kind1 /\ KindOf(t.b) = kind2
  \/ KindOf(t.a) = kind2 /\ KindOf(t.b) = kind1

\* C29: in a collision pass, a test of an arrow and a balloon whose boxes
\* overlap invokes collide on both, and neither is in the collection once
\* the frame has pruned; a test of two arrows invokes collide on neither, nor
\* does a test of a balloon and the player; and a balloon that the frame's
\* pruning removes was found overlapping an arrow by the frame's pass.
C29_ClassMaskTable ==
  /\ \A n \in DOMAIN tests :
       LET t == tests[n]
       IN  /\ (PairOf(t, "Arrow", "Balloon") /\ t.hit) =>
                /\ t.c1 /\ t.c2
                /\ Done("prune") =>
                     {t.a, t.b} \cap Range(Ids(entities)) = {}
           /\ PairOf(t, "Arrow", "Arrow") => ~t.c1 /\ ~t.c2
           /\ PairOf(t, "Balloon", "Player") => ~t.c1 /\ ~t.c2
  /\ Done("prune") =>
       \A k \in DOMAIN before_prune :
         (before_prune[k].kind = "Balloon"
          /\ before_prune[k].id \notin Range(Ids(entities))) =>
           \E n \in DOMAIN tests :
             /\ tests[n].hit
             /\ before_prune[k].id \in {tests[n].a, tests[n].b}
             /\ PairOf(tests[n], "Arrow", "Balloon")

\* C29 witness: the frame has pruned after a pass in which an arrow and a
\* balloon overlapped and the same balloon overlapped the player; the arrow
\* and the balloon are gone and the player is not killed.
C29_Witness ==
  /\ Done("prune")
  /\ \E n, m \in DOMAIN tests :
       /\ tests[n].hit /\ PairOf(tests[n], "Arrow", "Balloon")
       /\ {tests[n].a, tests[n].b} \cap Range(Ids(entities)) = {}
       /\ tests[m].hit /\ PairOf(tests[m], "Balloon", "Player")
       /\ {tests[n].a, tests[n].b} \cap {tests[m].a, tests[m].b} # {}
  /\ \E k \in DOMAIN entities :
       entities[k].kind = "Player" /\ ~entities[k].killed

\* ------------------------------------------------------------------ C30
\* The passes of the simulation.
SimulationSteps == {"camera", "collide", "update", "integrate", "prune"}

\* C30: in a frame of main in which the menu is open, from the menu step to
\* the next poll, no camera update, collision pass, update pass, integration
\* or pruning is executed, and the collection, every entity's state, the
\* spawn list and x_scroll / y_scroll stay what they were when the frame
\* began; the tile map and the entities are drawn and the batch is flushed
\* once.  The first frame after the menu closes therefore simulates from the
\* state that was there when it opened.
C30_MenuFreezesSimulation ==
  /\ []((prog = "main" /\ menu_open /\ pc \notin {"poll", "menu", "done"}) =>
          /\ Range(steps) \cap SimulationSteps = {}
          /\ entities = at_start
          /\ pc \in {"tile_draw", "draw", "menu_draw", "render"}
          /\ (pc = "render") => steps = << "tile_draw", "draw" >>
          /\ gl_draws.calls = 0)
  /\ []((prog = "main" /\ menu_open /\ pc = "poll" /\ frame > 0) =>
          /\ steps = << "tile_draw", "draw", "render" >>
          /\ entities = at_start
          /\ gl_draws.calls = 1
          /\ Len(quad_calls) = 9)
  /\ [][(prog = "main" /\ menu_open') =>
          /\ entities' = entities /\ new_entities' = new_entities
          /\ x_scroll' = x_scroll /\ y_scroll' = y_scroll
          /\ offset' = offset /\ next_id' = next_id]_vars
  /\ [][(prog = "main" /\ pc = "menu" /\ menu_open /\ ~menu_open') =>
          pc' = "camera" /\ entities = at_start]_vars

\* C30 witness: a paused frame of main has been drawn and flushed after a
\* simulated frame that moved the camera and fired no pass since; the
\* entities drawn are those the frame began with.
C30_Witness ==
  /\ prog = "main" /\ menu_open /\ pc = "poll" /\ frame = 2
  /\ steps = << "tile_draw", "draw", "render" >>
  /\ y_scroll > 0
  /\ Len(entities) > 1
  /\ entities = at_start
  /\ gl_draws.calls = 1 /\ gl_draws.placed > 0

=============================================================================
